---- MODULE Spec2Model ----
(***************************************************************************)
(* A model of the GEDCOM parser's registry, relationship linker, inline    *)
(* media promotion pass and entity resolution engine.                      *)
(*                                                                         *)
(* Python values are modelled as follows: None is the string None, a dict  *)
(* is a function (with its insertion order kept in a sequence of keys      *)
(* where the code iterates over it), a list is a sequence, an object       *)
(* reference held in a derived field is the pointer under which the        *)
(* referenced entity is registered.                                        *)
(***************************************************************************)
EXTENDS Integers, Sequences, FiniteSets, TLC

VARIABLES
    individuals,    \* registry.individuals: pointer -> IndividualEntity
    families,       \* registry.families: pointer -> FamilyEntity
    sources,        \* registry.sources: pointer -> SourceEntity
    media_objects,  \* registry.media_objects: key -> MediaObjectEntity
    tree,           \* the inline OBJE nodes of the parsed tree: <<top pointer, lineno>> -> node
    link_calls,     \* number of link_entities calls made so far
    first_link,     \* the registry as the first link_entities call left it
    promote_runs,   \* consecutive promote_inline_media_objects runs on the unchanged registry
    promote_result, \* outcome of the latest run: the value returned, or the exception raised
    promote_prev,   \* attachments and media keys as the run before the latest one left them
    registry,       \* the exported registry the resolution engine reads
    config,         \* min_score, review_threshold, auto_merge_threshold, max_pairs
    stage,          \* how far main has come
    blocks,         \* collect_individual_candidates: the blocks built
    pairs,          \* collect_individual_candidates: the pairs generated
    candidates,     \* the kept candidate pairs
    clusters,       \* cid -> members, in insertion order
    merge_plan,     \* cid -> decision, in insertion order
    new_registry,   \* what apply_merges_to_registry returned
    cluster,        \* a cluster handed to build_merge_plan on its own
    decision,       \* the decision taken for it
    raised,         \* the exception that ended the resolution run, or None
    records,        \* tree.records: the top-level records handed to build_registry
    built,          \* build_registry: None before the call, then "built" or the exception raised
    call,           \* the arguments of a function called on its own
    result,         \* empty before the call, then the one value the call returned
    notes,          \* registry.notes: pointer -> NoteEntity
    registered,     \* the register_* calls made so far: kind and entity, in order
    uuid_calls,     \* the calls made to the identity factory, with what they returned
    hash_seed,      \* PYTHONHASHSEED of the interpreter run under way
    scored          \* the blocks whose worker has finished scoring

linkVars == <<individuals, families, link_calls, first_link>>
promoteVars == <<sources, media_objects, tree, promote_runs, promote_result, promote_prev>>
resVars == <<registry, config, stage, blocks, pairs, candidates, clusters, merge_plan,
             new_registry, cluster, decision, raised>>
buildVars == <<records, built>>
callVars == <<call, result>>
storeVars == <<notes, registered>>
idVars == <<uuid_calls, hash_seed>>
workVars == <<scored>>
moreVars == <<buildVars, callVars, storeVars, idVars, workVars>>
vars == <<linkVars, promoteVars, resVars, moreVars>>

None == "<None>"

EmptyMap == [k \in {} |-> None]

\* build_registry is not under way
NoBuild == records = <<>> /\ built = None

\* no function is called on its own
NoCall == call = None /\ result = <<>>

\* no note is held and no register_* call is recorded
NoStore == notes = EmptyMap /\ registered = <<>>

\* no call to the identity factory is recorded
NoIdentity == uuid_calls = <<>> /\ hash_seed = 0

\* no worker has finished
NoWork == scored = {}

NoMore == NoBuild /\ NoCall /\ NoStore /\ NoIdentity /\ NoWork

\* Python truthiness of an optional string
Falsy(v) == v = None \/ v = ""

(***************************************************************************)
(* Bounds of the linker model                                              *)
(***************************************************************************)
MaxChildren == 2        \* child references held by the families of a registry, in all
MaxLinkCalls == 2       \* link_entities calls counted (the counter saturates here)
MaxAtts == 2            \* longest attachment list of an entity
MaxPromoteRuns == 2     \* consecutive promotion runs counted (the counter saturates here)

\* pointers of the registered individuals, and one pointer nobody is registered under
IndOrder == <<"@I1@", "@I2@">>     \* registry.individuals in insertion order
IndPtrs == {IndOrder[i] : i \in 1..Len(IndOrder)}
DanglingPtr == "@I404@"
FamOrder == <<"@F1@", "@F2@">>     \* registry.families in insertion order
FamPtrs == {FamOrder[i] : i \in 1..Len(FamOrder)}
SrcOrder == <<"@S1@">>             \* registry.sources in insertion order
SrcPtrs == {SrcOrder[i] : i \in 1..Len(SrcOrder)}

Min(a, b) == IF a <= b THEN a ELSE b


\* d[k] = v on a dict
Put(d, k, v) == [x \in DOMAIN d \cup {k} |-> IF x = k THEN v ELSE d[x]]

SeqsUpTo(S, n) == UNION {[1..k -> S] : k \in 0..n}

\* the element of a set of one element: TheOne({F(x) : x \in {e}}) is F(e), with e
\* worked out once, before F
TheOne(S) == CHOOSE x \in S : TRUE

(***************************************************************************)
(* registry/entities.py: the entities as the builders leave them           *)
(***************************************************************************)
IndividualEntity(attachments) ==
    [spouse_in_families |-> <<>>, child_in_families |-> <<>>,
     attachments |-> attachments]

FamilyEntity(husband, wife, children, attachments) ==
    [husband |-> husband, wife |-> wife, children |-> children,
     husband_entity |-> None, wife_entity |-> None, children_entities |-> <<>>,
     attachments |-> attachments]

SourceEntity(attachments) == [attachments |-> attachments]

MediaObjectEntity(uuid, pointer, title, files) ==
    [uuid |-> uuid, pointer |-> pointer, title |-> title, files |-> files]

(***************************************************************************)
(* registry/link_entities.py                                               *)
(***************************************************************************)
\* identity/uuid_factory.py defines no normalize_pointer; the pointer is the
\* opaque identifier of section 3 of the specification, resolved as it stands
normalize_pointer(ptr) == ptr

norm_ptr(ptr) ==
    IF Falsy(ptr) THEN None
    ELSE IF ~Falsy(normalize_pointer(ptr)) THEN normalize_pointer(ptr) ELSE ptr

\* the two clearing loops
ClearDerived(reg) ==
    [inds |-> [p \in DOMAIN reg.inds |->
                  [reg.inds[p] EXCEPT !.spouse_in_families = <<>>,
                                      !.child_in_families = <<>>]],
     fams |-> [f \in DOMAIN reg.fams |->
                  [reg.fams[f] EXCEPT !.husband_entity = None,
                                      !.wife_entity = None,
                                      !.children_entities = <<>>]]]

LinkHusband(reg, f) ==
    LET husb_ptr == norm_ptr(reg.fams[f].husband) IN
    IF ~Falsy(husb_ptr) /\ husb_ptr \in DOMAIN reg.inds
    THEN [inds |-> [reg.inds EXCEPT ![husb_ptr].spouse_in_families = Append(@, f)],
          fams |-> [reg.fams EXCEPT ![f].husband_entity = husb_ptr]]
    ELSE reg

\* LinkWife without the back-reference on the individual
LinkWife_one_way(reg, f) ==
    LET wife_ptr == norm_ptr(reg.fams[f].wife) IN
    IF ~Falsy(wife_ptr) /\ wife_ptr \in DOMAIN reg.inds
    THEN [reg EXCEPT !.fams[f].wife_entity = wife_ptr]
    ELSE reg

LinkWife(reg, f) ==
    LET wife_ptr == norm_ptr(reg.fams[f].wife) IN
    IF ~Falsy(wife_ptr) /\ wife_ptr \in DOMAIN reg.inds
    THEN [inds |-> [reg.inds EXCEPT ![wife_ptr].spouse_in_families = Append(@, f)],
          fams |-> [reg.fams EXCEPT ![f].wife_entity = wife_ptr]]
    ELSE reg

RECURSIVE LinkChildren_once(_, _, _)
\* the loop over the children with a child that is already linked passed by
LinkChildren_once(reg, f, i) ==
    IF i > Len(reg.fams[f].children) THEN reg
    ELSE LET child_ptr == norm_ptr(reg.fams[f].children[i]) IN
         IF Falsy(child_ptr) \/ child_ptr \notin DOMAIN reg.inds
            \/ \E k \in 1..Len(reg.fams[f].children_entities) :
                   reg.fams[f].children_entities[k] = child_ptr
         THEN LinkChildren_once(reg, f, i + 1)
         ELSE LinkChildren_once(
                 [inds |-> [reg.inds EXCEPT ![child_ptr].child_in_families = Append(@, f)],
                  fams |-> [reg.fams EXCEPT ![f].children_entities = Append(@, child_ptr)]],
                 f, i + 1)

RECURSIVE LinkChildren(_, _, _)
LinkChildren(reg, f, i) ==
    IF i > Len(reg.fams[f].children) THEN reg
    ELSE LET child_ptr == norm_ptr(reg.fams[f].children[i]) IN
         IF Falsy(child_ptr) \/ child_ptr \notin DOMAIN reg.inds
         THEN LinkChildren(reg, f, i + 1)
         ELSE LinkChildren(
                 [inds |-> [reg.inds EXCEPT ![child_ptr].child_in_families = Append(@, f)],
                  fams |-> [reg.fams EXCEPT ![f].children_entities = Append(@, child_ptr)]],
                 f, i + 1)

LinkFamily(reg, f) == LinkChildren(LinkWife(LinkHusband(reg, f), f), f, 1)

\* the loop over the families given up at the first family whose husband is missing
RECURSIVE LinkFamilies_abort(_, _)
LinkFamilies_abort(reg, i) ==
    IF i > Len(FamOrder) THEN reg
    ELSE IF FamOrder[i] \notin DOMAIN reg.fams THEN LinkFamilies_abort(reg, i + 1)
    ELSE IF ~Falsy(reg.fams[FamOrder[i]].husband)
            /\ reg.fams[FamOrder[i]].husband \notin DOMAIN reg.inds
    THEN reg
    ELSE LinkFamilies_abort(LinkFamily(reg, FamOrder[i]), i + 1)

RECURSIVE LinkFamilies(_, _)
LinkFamilies(reg, i) ==
    IF i > Len(FamOrder) THEN reg
    ELSE IF FamOrder[i] \notin DOMAIN reg.fams THEN LinkFamilies(reg, i + 1)
    ELSE LinkFamilies(LinkFamily(reg, FamOrder[i]), i + 1)

\* link_entities without its clearing loops
link_entities_noclear(reg) == LinkFamilies(reg, 1)

link_entities(reg) == LinkFamilies(ClearDerived(reg), 1)

Registry == [inds |-> individuals, fams |-> families]

(***************************************************************************)
(* identity/uuid_factory.py                                                *)
(***************************************************************************)
\* the hash salted with the seed of the interpreter run, as the built-in hash() is
hash_to_uuid_seeded(namespace, payload) ==
    "uuid[" \o namespace \o "|" \o payload \o "|" \o ToString(hash_seed) \o "]"

\* SHA-256 of the JSON text of namespace and payload, taken as collision free:
\* the identity is the text that was hashed
hash_to_uuid(namespace, payload) == "uuid[" \o namespace \o "|" \o payload \o "]"

\* A call uuid_for_record(*args). The function has two required positional
\* parameters, record_type and pointer: any other number of arguments raises
\* TypeError before the body runs.
uuid_for_record(args) ==
    IF Len(args) # 2 THEN [raised |-> "TypeError", value |-> None]
    ELSE IF Falsy(args[2]) THEN [raised |-> None, value |-> None]
    ELSE [raised |-> None,
          value |-> hash_to_uuid("record", args[1] \o "|" \o args[2])]

\* A call uuid_for_pointer(*args): the wrapper has the two required positional
\* parameters of uuid_for_record
uuid_for_pointer(args) ==
    IF Len(args) # 2 THEN [raised |-> "TypeError", value |-> None]
    ELSE uuid_for_record(args)

(***************************************************************************)
(* attachments.py                                                          *)
(***************************************************************************)
Absent == "<absent>"    \* the value of a child node that is not there
NoValue == 0 - 1        \* in place of a number: the call returned nothing

AttachedRecord(pointer, media_object_id, promoted, file, title, owner_pointer, lineno) ==
    [pointer |-> pointer, media_object_id |-> media_object_id, promoted |-> promoted,
     file |-> file, title |-> title,
     raw |-> [owner_pointer |-> owner_pointer, lineno |-> lineno]]

\* an inline OBJE node: its line, the value of its FILE child and of its TITL child
ObjeNode(lineno, file, title) == [lineno |-> lineno, file |-> file, title |-> title]

\* str.strip() on the titles of the model
Strip(s) == IF s = " " THEN "" ELSE s

\* _child_value(obje_node, "TITL")
TitlValue(node) == IF node.title = Absent THEN None ELSE node.title

should_promote_inline_obje(node) ==
    IF node.file # Absent THEN TRUE
    ELSE LET titl == TitlValue(node) IN ~Falsy(titl) /\ ~Falsy(Strip(titl))

\* _node_to_record_dict: the fingerprint payload of an inline OBJE node
node_to_record_dict(node) ==
    [tag |-> "OBJE", value |-> None, pointer |-> None, lineno |-> node.lineno,
     children |-> <<node.file, node.title>>]

\* register_media_object assigning a fresh dict instead of one key
register_media_object_replacing(media_objects_, media) ==
    LET key == IF ~Falsy(media.pointer) THEN media.pointer ELSE media.uuid IN
    [k \in {key} |-> media]

\* GedcomRegistry.register_media_object
register_media_object(media_objects_, media) ==
    LET key == IF ~Falsy(media.pointer) THEN media.pointer ELSE media.uuid IN
    Put(media_objects_, key, media)

\* the attachments of the registry in the order the pass visits them:
\* individuals, then families, then sources, each in insertion order
RECURSIVE EntityLocs(_, _, _, _)
EntityLocs(ents, kind, order, i) ==
    IF i > Len(order) THEN <<>>
    ELSE IF order[i] \notin DOMAIN ents[kind] THEN EntityLocs(ents, kind, order, i + 1)
    ELSE [j \in 1..Len(ents[kind][order[i]].attachments) |-> <<kind, order[i], j>>]
         \o EntityLocs(ents, kind, order, i + 1)

AttachmentLocs(ents) ==
    EntityLocs(ents, "individuals", IndOrder, 1)
    \o EntityLocs(ents, "families", FamOrder, 1)
    \o EntityLocs(ents, "sources", SrcOrder, 1)

\* one turn of the loop of promote_entity, on the attachment at loc
PromoteAttachment(st, obje_index, loc) ==
    LET kind == loc[1]
        ptr == loc[2]
        i == loc[3]
        att == st.ents[kind][ptr].attachments[i]
        key == <<att.raw.owner_pointer, att.raw.lineno>>
    IN
    IF st.raised # None THEN st
    ELSE IF ~Falsy(att.pointer)
    THEN [st EXCEPT !.ents[kind][ptr].attachments[i].media_object_id = att.pointer]
    ELSE IF att.promoted /\ ~Falsy(att.media_object_id)
            /\ att.media_object_id \in DOMAIN st.media
    THEN st
    ELSE IF key \notin DOMAIN obje_index THEN st
    ELSE IF ~should_promote_inline_obje(obje_index[key]) THEN st
    ELSE LET media_uuid == uuid_for_record(<<node_to_record_dict(obje_index[key])>>) IN
         IF media_uuid.raised # None
         THEN [st EXCEPT !.raised = media_uuid.raised]
         ELSE IF media_uuid.value \in DOMAIN st.media
         THEN [st EXCEPT !.ents[kind][ptr].attachments[i].media_object_id = media_uuid.value,
                         !.ents[kind][ptr].attachments[i].promoted = TRUE]
         ELSE [st EXCEPT
                 !.media = register_media_object(st.media,
                              MediaObjectEntity(media_uuid.value, None, att.title,
                                  IF ~Falsy(att.file) THEN <<att.file>> ELSE <<>>)),
                 !.ents[kind][ptr].attachments[i].media_object_id = media_uuid.value,
                 !.ents[kind][ptr].attachments[i].promoted = TRUE,
                 !.created = st.created + 1]

RECURSIVE PromoteFrom(_, _, _, _)
PromoteFrom(st, obje_index, locs, n) ==
    IF n > Len(locs) THEN st
    ELSE PromoteFrom(PromoteAttachment(st, obje_index, locs[n]), obje_index, locs, n + 1)

\* the registry after the call, the number returned and the exception raised (or None)
promote_inline_media_objects(ents, media, obje_index) ==
    PromoteFrom([ents |-> ents, media |-> media, created |-> 0, raised |-> None],
                obje_index, AttachmentLocs(ents), 1)

Entities == [individuals |-> individuals, families |-> families, sources |-> sources]

\* what promotion reads and writes: every attachment, and the keys of media_objects
AttachmentsOf(ents) ==
    [kind \in DOMAIN ents |-> [p \in DOMAIN ents[kind] |-> ents[kind][p].attachments]]

Snapshot == [attachments |-> AttachmentsOf(Entities), keys |-> DOMAIN media_objects]

(***************************************************************************)
(* The operations                                                          *)
(***************************************************************************)
LinkEntities ==
    LET out == link_entities(Registry) IN
    /\ individuals' = out.inds
    /\ families' = out.fams
    /\ first_link' = IF link_calls = 0 THEN out ELSE first_link
    /\ link_calls' = Min(link_calls + 1, MaxLinkCalls)
    /\ promote_runs' = IF out = Registry THEN promote_runs ELSE 0
    /\ UNCHANGED <<sources, media_objects, tree, promote_result, promote_prev>>
    /\ UNCHANGED resVars
    /\ UNCHANGED moreVars

PromoteInlineMediaObjects ==
    LET out == promote_inline_media_objects(Entities, media_objects, tree) IN
    /\ individuals' = out.ents.individuals
    /\ families' = out.ents.families
    /\ sources' = out.ents.sources
    /\ media_objects' = out.media
    /\ promote_result' = [raised |-> out.raised,
                          returned |-> IF out.raised = None THEN out.created ELSE NoValue]
    /\ promote_prev' = Snapshot
    /\ promote_runs' = Min(promote_runs + 1, MaxPromoteRuns)
    /\ UNCHANGED <<tree, link_calls, first_link>>
    /\ UNCHANGED resVars
    /\ UNCHANGED moreVars

\* the media objects a caller registers: two different records under one pointer,
\* and a pointer-less one
PrevUuid == "uuid[earlier-run]"
MediaChoices ==
    {MediaObjectEntity("uuid[record|OBJE|@O1@]", "@O1@", "A", <<>>),
     MediaObjectEntity("uuid[record|OBJE|@O1@]", "@O1@", "B", <<"b.jpg">>),
     MediaObjectEntity(PrevUuid, None, "C", <<>>)}

RegisterMediaObject ==
    \E media \in MediaChoices :
        /\ media_objects' = register_media_object(media_objects, media)
        /\ promote_runs' = IF media_objects' = media_objects THEN promote_runs ELSE 0
        /\ UNCHANGED <<individuals, families, sources, tree, link_calls, first_link,
                       promote_result, promote_prev>>
        /\ UNCHANGED resVars
        /\ UNCHANGED moreVars

\* the registry variables of the linker and of promotion, not in use
NoEntities ==
    /\ individuals = EmptyMap
    /\ families = EmptyMap
    /\ sources = EmptyMap
    /\ media_objects = EmptyMap
    /\ tree = EmptyMap
    /\ link_calls = 0
    /\ first_link = None
    /\ promote_runs = 0
    /\ promote_result = [raised |-> None, returned |-> NoValue]
    /\ promote_prev = None

\* no resolution run is under way
NoResolution ==
    /\ registry = None
    /\ config = None
    /\ stage = "idle"
    /\ blocks = <<>>
    /\ pairs = <<>>
    /\ candidates = <<>>
    /\ clusters = <<>>
    /\ merge_plan = <<>>
    /\ new_registry = None
    /\ cluster = None
    /\ decision = None
    /\ raised = None

(***************************************************************************)
(* The linker on its own: every registry of two individuals and two        *)
(* families, link_entities called again and again                          *)
(***************************************************************************)
RECURSIVE SumChildren(_, _)
SumChildren(fams, i) ==
    IF i > Len(FamOrder) THEN 0
    ELSE Len(fams[FamOrder[i]].children) + SumChildren(fams, i + 1)

InitLink ==
    /\ individuals = [p \in IndPtrs |-> IndividualEntity(<<>>)]
    /\ families \in {fams \in [FamPtrs ->
          {FamilyEntity(h, w, c, <<>>) :
               h \in IndPtrs \cup {DanglingPtr, None},
               w \in IndPtrs \cup {DanglingPtr, None},
               c \in SeqsUpTo(IndPtrs \cup {DanglingPtr}, MaxChildren)}] :
          SumChildren(fams, 1) <= MaxChildren}
    /\ sources = [p \in SrcPtrs |-> SourceEntity(<<>>)]
    /\ media_objects = EmptyMap
    /\ tree = EmptyMap
    /\ link_calls = 0
    /\ first_link = None
    /\ promote_runs = 0
    /\ promote_result = [raised |-> None, returned |-> NoValue]
    /\ promote_prev = None
    /\ NoResolution
    /\ NoMore

NextLink == LinkEntities

SpecLink == InitLink /\ [][NextLink]_vars

(***************************************************************************)
(* Promotion: a registry whose first individual, first family and source   *)
(* carry attachments, a tree with up to two inline OBJE nodes, and any     *)
(* sequence of registrations, link_entities calls and promotion runs       *)
(***************************************************************************)
\* parse_obje_node on an inline node: title and file as the attachment keeps them
ParsedTitle(node) == IF ~Falsy(TitlValue(node)) THEN node.title ELSE None
ParsedFile(node) == IF node.file # Absent /\ ~Falsy(node.file) THEN node.file ELSE None

NodeKinds(lineno) ==
    {ObjeNode(lineno, f, t) : f \in {Absent, "", "a.jpg"}, t \in {Absent, " ", "T"}}

\* the attachments an entity may hold for the inline node at lineno of the tree tr:
\* a pointer-form reference, the inline reference with or without its owner's
\* pointer in raw, and the inline reference as an earlier promotion left it
AttKinds(tr, owner, lineno) ==
    LET key == <<owner, lineno>>
        f == IF key \in DOMAIN tr THEN ParsedFile(tr[key]) ELSE None
        t == IF key \in DOMAIN tr THEN ParsedTitle(tr[key]) ELSE None
    IN {AttachedRecord("@O1@", "@O1@", FALSE, None, None, owner, lineno),
        AttachedRecord(None, None, FALSE, f, t, owner, lineno),
        AttachedRecord(None, None, FALSE, f, t, None, lineno),
        AttachedRecord(None, PrevUuid, TRUE, f, t, owner, lineno)}

RECURSIVE AnyPromoted(_, _)
AnyPromoted(atts, i) ==
    IF i > Len(atts) THEN FALSE ELSE atts[i].promoted \/ AnyPromoted(atts, i + 1)

Trees ==
    {Put(t1, <<"@F1@", 5>>, n5) :
        t1 \in {EmptyMap} \cup {Put(EmptyMap, <<"@I1@", 2>>, n2) : n2 \in NodeKinds(2)},
        n5 \in {ObjeNode(5, "b.jpg", Absent), ObjeNode(5, Absent, Absent)}}

InitPromote ==
    /\ tree \in Trees
    /\ \E atts \in SeqsUpTo(AttKinds(tree, "@I1@", 2), MaxAtts) :
        /\ individuals = [p \in IndPtrs |->
                             IndividualEntity(IF p = "@I1@" THEN atts ELSE <<>>)]
        /\ media_objects = IF AnyPromoted(atts, 1)
                           THEN register_media_object(EmptyMap,
                                    MediaObjectEntity(PrevUuid, None, "C", <<>>))
                           ELSE EmptyMap
    /\ families = [f \in FamPtrs |->
          IF f = "@F1@"
          THEN FamilyEntity("@I1@", "@I2@", <<>>,
                   <<AttachedRecord(None, None, FALSE, ParsedFile(tree[<<"@F1@", 5>>]),
                                    None, "@F1@", 5)>>)
          ELSE FamilyEntity(None, DanglingPtr, <<"@I2@">>, <<>>)]
    /\ sources = [p \in SrcPtrs |->
          SourceEntity(<<AttachedRecord("@O2@", "@O2@", FALSE, None, None, p, 9)>>)]
    /\ link_calls = 0
    /\ first_link = None
    /\ promote_runs = 0
    /\ promote_result = [raised |-> None, returned |-> NoValue]
    /\ promote_prev = None
    /\ NoResolution
    /\ NoMore

NextPromote == LinkEntities \/ PromoteInlineMediaObjects \/ RegisterMediaObject

SpecPromote == InitPromote /\ [][NextPromote]_vars

(***************************************************************************)
(* The identity factory as the pipeline calls it: any two calls, from any  *)
(* call site, in one interpreter run or in two                             *)
(***************************************************************************)
MaxCalls == 2           \* calls made to the identity factory
MaxSeed == 1            \* PYTHONHASHSEED is one of 0..MaxSeed

\* the call made at a call site for a record of a type under a pointer:
\* uuid_for_record(record_type, pointer) called directly;
\* extract_indi and the other extractors, uuid_for_pointer(record_type, pointer);
\* build_uuid_index of the xref resolver, uuid_for_pointer(rec_type, ptr);
\* build_individual and the other builders, uuid_for_pointer(pointer);
\* promote_entity, uuid_for_record(record_dict)
CallAt(site, record_type, pointer) ==
    IF site = "uuid_for_record" THEN uuid_for_record(<<record_type, pointer>>)
    ELSE IF site \in {"extract_indi", "build_uuid_index"}
    THEN uuid_for_pointer(<<record_type, pointer>>)
    ELSE IF site = "build_individual" THEN uuid_for_pointer(<<pointer>>)
    ELSE uuid_for_record(<<node_to_record_dict(ObjeNode(5, "b.jpg", Absent))>>)

CallIdentity ==
    /\ Len(uuid_calls) < MaxCalls
    /\ \E site \in {"uuid_for_record", "extract_indi", "build_uuid_index",
                      "build_individual", "promote_entity"},
          record_type \in {"INDI", "FAM"},
          pointer \in {"@X1@", "@X2@", None, ""} :
            \E out \in {CallAt(site, record_type, pointer)} :
               uuid_calls' = Append(uuid_calls,
                                 [site |-> site, record_type |-> record_type,
                                  pointer |-> pointer, seed |-> hash_seed,
                                  raised |-> out.raised, value |-> out.value])
    /\ UNCHANGED <<linkVars, promoteVars, resVars, buildVars, callVars, storeVars, workVars, hash_seed>>

\* the interpreter is started anew
FreshRun ==
    /\ \E seed \in (0..MaxSeed) \ {hash_seed} : hash_seed' = seed
    /\ UNCHANGED <<linkVars, promoteVars, resVars, buildVars, callVars, storeVars, workVars, uuid_calls>>

InitIdentity == NoEntities /\ NoResolution /\ NoBuild /\ NoCall /\ NoStore /\ NoIdentity /\ NoWork

SpecIdentity == InitIdentity /\ [][CallIdentity \/ FreshRun]_vars

(***************************************************************************)
(* Event identity: uuid_for_event of identity/uuid_factory.py, and the two *)
(* extractors that store a uuid on an event, extract_event of              *)
(* events/event.py and _extract_event of entities/extractor.py, run on two *)
(* event nodes of one owning record                                        *)
(***************************************************************************)
\* the payload dict of uuid_for_event as its JSON text
uuid_for_event(record_uuid, tag, date, place_raw) ==
    IF Falsy(record_uuid) THEN None
    ELSE hash_to_uuid("event",
             "{date:" \o date \o ",place_raw:" \o place_raw
                 \o ",record_uuid:" \o record_uuid \o ",tag:" \o tag \o "}")

\* raw_date or "", raw_place or "": the value of a child that is missing is None
OrEmpty(value) == IF value = Absent \/ Falsy(value) THEN "" ELSE value

\* an event node: its tag and the values of its DATE and PLAC children
EventNode(tag, date, place) == [tag |-> tag, date |-> date, place |-> place]

\* the uuid extract_event of events/event.py gives the Event it returns
extract_event(event_node, record_uuid) ==
    IF ~Falsy(record_uuid) THEN "evt-" \o record_uuid \o "-" \o event_node.tag
    ELSE "evt-" \o event_node.tag

\* the uuid _extract_event of entities/extractor.py stores on the event dict
extractor_extract_event(event_node, record_uuid) ==
    IF record_uuid # None
    THEN uuid_for_event(record_uuid, OrEmpty(event_node.tag),
                        OrEmpty(event_node.date), OrEmpty(event_node.place))
    ELSE None

EventNodes ==
    {EventNode(tag, date, place) :
        tag \in {"BIRT", "DEAT"}, date \in {"1850", "1851", Absent},
        place \in {"Boston", Absent}}

InitEvent ==
    /\ call \in [site : {"events.extract_event", "extractor._extract_event"},
                 record_uuid : {uuid_for_pointer(<<"INDI", "@X1@">>).value, None},
                 nodes : EventNodes \X EventNodes]
    /\ result = <<>>
    /\ NoEntities /\ NoResolution /\ NoBuild /\ NoStore /\ NoIdentity /\ NoWork

\* the events of the record are extracted one after the other
ExtractEvents ==
    /\ result = <<>>
    /\ result' = [k \in 1..2 |->
                     IF call.site = "events.extract_event"
                     THEN extract_event(call.nodes[k], call.record_uuid)
                     ELSE extractor_extract_event(call.nodes[k], call.record_uuid)]
    /\ UNCHANGED <<linkVars, promoteVars, resVars, buildVars, storeVars, idVars, workVars, call>>

SpecEvent == InitEvent /\ [][ExtractEvents]_vars

(***************************************************************************)
(* loader/segmenter.py: segment_records on any list of up to MaxTokens     *)
(* tokens of levels 0 .. MaxLevel. A token is its level; the node made of  *)
(* the i-th token is known by i, its place in the input.                   *)
(***************************************************************************)
MaxTokens == 5      \* tokens handed to segment_records
MaxLevel == 3       \* the highest level a token has

\* the stack is left as it is
PopTo_kept(stack, level) == stack

\* stack = stack[: tok.level]
PopTo(stack, level) == SubSeq(stack, 1, Min(level, Len(stack)))

RECURSIVE SegmentFrom(_, _, _)
\* the loop of segment_lines from the i-th token on; st holds root_nodes, stack,
\* the children of every node and the exception raised
SegmentFrom(tokens, i, st_) ==
    LET Attach(st, stk) ==
            IF tokens[i] - 1 < 0 \/ tokens[i] - 1 >= Len(stk)
            THEN [st EXCEPT !.raised = "GEDCOMStructureError"]
            ELSE SegmentFrom(tokens, i + 1,
                     [st EXCEPT !.children[stk[tokens[i]]] = Append(@, i),
                                !.stack = IF tokens[i] = Len(stk) THEN Append(stk, i)
                                          ELSE [stk EXCEPT ![tokens[i] + 1] = i]])
        Turn(st) ==
            IF i > Len(tokens) THEN st
            ELSE IF tokens[i] = 0
            THEN SegmentFrom(tokens, i + 1,
                             [st EXCEPT !.root_nodes = Append(@, i), !.stack = <<i>>])
            ELSE IF tokens[i] > Len(st.stack)
            THEN [st EXCEPT !.raised = "GEDCOMStructureError"]
            ELSE TheOne({Attach(st, stk) : stk \in {PopTo(st.stack, tokens[i])}})
    IN TheOne({Turn(st) : st \in {st_}})

segment_lines(tokens) ==
    SegmentFrom(tokens, 1, [root_nodes |-> <<>>, stack |-> <<>>,
                            children |-> [i \in 1..Len(tokens) |-> <<>>],
                            raised |-> None])

\* the tree of segment_lines, returned as it is
segment_records(tokens) ==
    LET Out(nodes) == [raised |-> nodes.raised, records |-> nodes.root_nodes,
                       children |-> nodes.children]
    IN TheOne({Out(nodes) : nodes \in {segment_lines(tokens)}})

InitSegment ==
    /\ call \in SeqsUpTo(0..MaxLevel, MaxTokens)
    /\ result = <<>>
    /\ NoEntities /\ NoResolution /\ NoBuild /\ NoStore /\ NoIdentity /\ NoWork

SegmentRecords ==
    /\ result = <<>>
    /\ result' = <<segment_records(call)>>
    /\ UNCHANGED <<linkVars, promoteVars, resVars, buildVars, storeVars, idVars, workVars, call>>

SpecSegment == InitSegment /\ [][SegmentRecords]_vars

(***************************************************************************)
(* registry/entities.py: GedcomRegistry as a store, any three register_*   *)
(* calls on an empty registry                                              *)
(***************************************************************************)
MaxRegisters == 3       \* register_* calls made on a registry

\* register_<kind> with every entity kept under its uuid
register_under_uuid(store, kind, entity) ==
    [store EXCEPT ![kind] = Put(@, entity.uuid, entity)]

\* register_individual, register_family, register_source, register_note and
\* register_media_object on the five maps of the registry
register(store, kind, entity) ==
    IF kind = "media_objects"
    THEN [store EXCEPT ![kind] = register_media_object(@, entity)]
    ELSE [store EXCEPT ![kind] = Put(@, entity.pointer, entity)]

\* get_<kind>(key): dict.get, the entity in a list of one, the empty list for None
get_entity(store, kind, key) ==
    IF key \in DOMAIN store[kind] THEN <<store[kind][key]>> ELSE <<>>

Store == [individuals |-> individuals, families |-> families, sources |-> sources,
          notes |-> notes, media_objects |-> media_objects]

\* the entities a caller registers: under each kind two pointers, each with two
\* different records; the media objects of MediaChoices
StoreChoices ==
    [kind \in {"individuals", "families", "sources", "notes", "media_objects"} |->
        IF kind = "media_objects" THEN MediaChoices
        ELSE {[uuid |-> "uuid[record|" \o ptr \o "]", pointer |-> ptr, title |-> title] :
                 ptr \in {"@X1@", "@X2@"}, title \in {"A", "B"}}]

Register ==
    /\ Len(registered) < MaxRegisters
    /\ \E kind \in DOMAIN StoreChoices :
          \E entity \in StoreChoices[kind] :
             \E out \in {register(Store, kind, entity)} :
                /\ individuals' = out.individuals
                /\ families' = out.families
                /\ sources' = out.sources
                /\ notes' = out.notes
                /\ media_objects' = out.media_objects
                /\ registered' = Append(registered, [kind |-> kind, entity |-> entity])
    /\ UNCHANGED <<tree, link_calls, first_link, promote_runs, promote_result, promote_prev>>
    /\ UNCHANGED <<resVars, buildVars, callVars, idVars, workVars>>

InitStore == NoEntities /\ NoResolution /\ NoBuild /\ NoCall /\ NoStore /\ NoIdentity /\ NoWork

SpecStore == InitStore /\ [][Register]_vars

(***************************************************************************)
(* registry/build_registry.py and the builders, and the load of a file:    *)
(* build_registry, link_entities, promote_inline_media_objects             *)
(***************************************************************************)
MaxRecords == 2         \* most top-level records of a tree

\* a top-level record: its tag, its pointer and its inline OBJE children
RecordNode(tag, pointer, objes) == [tag |-> tag, pointer |-> pointer, objes |-> objes]

\* parse_obje_node on an inline OBJE child: raw is the origin handed in (of which
\* promotion reads owner_pointer, None when origin has no such key) with the
\* child's lineno
InlineAttachment(node, owner_pointer) ==
    AttachedRecord(None, None, FALSE, ParsedFile(node), ParsedTitle(node),
                   owner_pointer, node.lineno)

\* extract_obje_attachments(node, origin={"container", "pointer", "lineno"})
extract_obje_attachments(node) ==
    [k \in 1..Len(node.objes) |-> InlineAttachment(node.objes[k], None)]

\* extract_attached_records(owner_entity, node): origin holds owner_pointer
extract_attached_records(node) ==
    [k \in 1..Len(node.objes) |-> InlineAttachment(node.objes[k], node.pointer)]

build_individual(node) ==
    IF Falsy(node.pointer) THEN [raised |-> "ValueError", value |-> None]
    ELSE LET uuid == uuid_for_pointer(<<node.pointer>>) IN
         IF uuid.raised # None THEN [raised |-> uuid.raised, value |-> None]
         ELSE [raised |-> None, value |-> IndividualEntity(extract_obje_attachments(node))]

\* extract_attached_records(family, node, promote=False) is a call with a keyword
\* the function does not have: the TypeError is caught and no attachment is kept
build_family(node) ==
    IF Falsy(node.pointer) THEN [raised |-> "ValueError", value |-> None]
    ELSE LET uuid == uuid_for_pointer(<<node.pointer>>) IN
         IF uuid.raised # None THEN [raised |-> uuid.raised, value |-> None]
         ELSE [raised |-> None, value |-> FamilyEntity(None, None, <<>>, <<>>)]

build_source(node) ==
    IF Falsy(node.pointer) THEN [raised |-> "ValueError", value |-> None]
    ELSE LET uuid == uuid_for_pointer(<<node.pointer>>) IN
         IF uuid.raised # None THEN [raised |-> uuid.raised, value |-> None]
         ELSE [raised |-> None, value |-> SourceEntity(extract_attached_records(node))]

\* registry.register_<kind>(build_<kind>(node))
RegisterBuilt(st, kind, node, entity) ==
    IF entity.raised # None THEN [st EXCEPT !.raised = entity.raised]
    ELSE [st EXCEPT ![kind] = Put(@, node.pointer, entity.value)]

RECURSIVE BuildFrom(_, _, _)
\* the loop of build_registry over tree.records
BuildFrom(recs, i, st) ==
    IF i > Len(recs) \/ st.raised # None THEN st
    ELSE LET node == recs[i] IN
         BuildFrom(recs, i + 1,
             IF node.tag = "INDI" THEN RegisterBuilt(st, "individuals", node, build_individual(node))
             ELSE IF node.tag = "FAM" THEN RegisterBuilt(st, "families", node, build_family(node))
             ELSE IF node.tag = "SOUR" THEN RegisterBuilt(st, "sources", node, build_source(node))
             ELSE st)

build_registry(recs) ==
    LET st == BuildFrom(recs, 1, [individuals |-> EmptyMap, families |-> EmptyMap,
                                  sources |-> EmptyMap, raised |-> None])
    IN IF st.raised # None THEN st
       ELSE LET linked == link_entities([inds |-> st.individuals, fams |-> st.families])
            IN [st EXCEPT !.individuals = linked.inds, !.families = linked.fams]

RECURSIVE ObjeIndexFrom(_, _, _)
\* index_nodes: the inline OBJE nodes under each top-level record, by (pointer, lineno)
ObjeIndexFrom(recs, i, index) ==
    IF i > Len(recs) THEN index
    ELSE ObjeIndexFrom(recs, i + 1,
             IF recs[i].objes = <<>> THEN index
             ELSE Put(index, <<recs[i].pointer, recs[i].objes[1].lineno>>, recs[i].objes[1]))

BuildRegistry ==
    /\ built = None
    /\ \E out \in {build_registry(records)} :
          IF out.raised # None
          THEN /\ built' = out.raised
               /\ UNCHANGED <<individuals, families, sources>>
          ELSE /\ built' = "built"
               /\ individuals' = out.individuals
               /\ families' = out.families
               /\ sources' = out.sources
    /\ UNCHANGED <<media_objects, tree, link_calls, first_link, promote_runs,
                   promote_result, promote_prev, records>>
    /\ UNCHANGED <<resVars, callVars, storeVars, idVars, workVars>>

\* load_gedcom goes on only when build_registry has returned
LinkBuilt == built = "built" /\ LinkEntities

PromoteBuilt == built = "built" /\ link_calls >= 1 /\ PromoteInlineMediaObjects

\* the records of a tree: an individual with or without an inline OBJE child, an
\* individual without a pointer, a family, a source, and records of other tags
RecordKinds ==
    {RecordNode("INDI", "@I1@", objes) :
        objes \in {<<>>} \cup {<<n2>> : n2 \in NodeKinds(2)}}
    \cup {RecordNode("INDI", None, <<>>),
          RecordNode("FAM", "@F1@", <<>>),
          RecordNode("FAM", "@F1@", <<ObjeNode(5, "b.jpg", Absent)>>),
          RecordNode("SOUR", "@S1@", <<ObjeNode(9, Absent, "T")>>),
          RecordNode("HEAD", None, <<>>),
          RecordNode("SUBM", "@U1@", <<>>)}

InitBuild ==
    /\ records \in {recs \in SeqsUpTo(RecordKinds, MaxRecords) :
                        \A i, j \in 1..Len(recs) :
                            i # j => recs[i].pointer # recs[j].pointer}
    /\ tree = ObjeIndexFrom(records, 1, EmptyMap)
    /\ built = None
    /\ individuals = EmptyMap
    /\ families = EmptyMap
    /\ sources = EmptyMap
    /\ media_objects = EmptyMap
    /\ link_calls = 0
    /\ first_link = None
    /\ promote_runs = 0
    /\ promote_result = [raised |-> None, returned |-> NoValue]
    /\ promote_prev = None
    /\ NoResolution
    /\ NoCall
    /\ NoStore
    /\ NoIdentity /\ NoWork

NextBuild == BuildRegistry \/ LinkBuilt \/ PromoteBuilt

SpecBuild == InitBuild /\ [][NextBuild]_vars

(***************************************************************************)
(* Properties of the linker                                                *)
(***************************************************************************)
Range(seq) == {seq[i] : i \in 1..Len(seq)}

\* the individual registered under pointer ptr, or None
Registered(ptr) == IF ptr \in DOMAIN individuals THEN ptr ELSE None

HasDangling(f) ==
    \/ (~Falsy(families[f].husband) /\ families[f].husband \notin DOMAIN individuals)
    \/ (~Falsy(families[f].wife) /\ families[f].wife \notin DOMAIN individuals)
    \/ \E c \in Range(families[f].children) : c \notin DOMAIN individuals

\* every pointer of family g that resolves is linked, in both directions
LinksInstalled(g) ==
    /\ families[g].husband \in DOMAIN individuals =>
          /\ families[g].husband_entity = families[g].husband
          /\ g \in Range(individuals[families[g].husband].spouse_in_families)
    /\ families[g].wife \in DOMAIN individuals =>
          /\ families[g].wife_entity = families[g].wife
          /\ g \in Range(individuals[families[g].wife].spouse_in_families)
    /\ \A c \in Range(families[g].children) :
          c \in DOMAIN individuals =>
              /\ c \in Range(families[g].children_entities)
              /\ g \in Range(individuals[c].child_in_families)

C1_PromotionIdempotent ==
    promote_runs >= 2 =>
        /\ promote_result.raised = None
        /\ promote_result.returned = 0
        /\ Snapshot = promote_prev

\* C5: every attachment with promoted = true has a media_object_id that is a
\* key of registry.media_objects, in every state reached by registrations,
\* link_entities calls and promotion runs, and no step takes an attachment's
\* promoted flag from true back to false.
PromotedResolve ==
    \A kind \in DOMAIN Entities : \A p \in DOMAIN Entities[kind] :
        \A i \in 1..Len(Entities[kind][p].attachments) :
            Entities[kind][p].attachments[i].promoted
                => Entities[kind][p].attachments[i].media_object_id \in DOMAIN media_objects

PromotedStays ==
    \A kind \in DOMAIN Entities : \A p \in DOMAIN Entities[kind] :
        \A i \in 1..Len(Entities[kind][p].attachments) :
            Entities[kind][p].attachments[i].promoted
                => /\ p \in DOMAIN Entities'[kind]
                   /\ i <= Len(Entities'[kind][p].attachments)
                   /\ Entities'[kind][p].attachments[i].promoted

One == 100 * 100

DEFAULT_MIN_SCORE == 7500
DEFAULT_AUTO_MERGE_THRESHOLD == 9200
DEFAULT_REVIEW_THRESHOLD == 8000
DEFAULT_MAX_PAIRS == 200000
STRICT_SURNAME_MATCH_THRESHOLD == 9500

SmallMaxPairs == 2      \* a max_pairs small enough to cut the enumeration short

\* the individuals of the registry, in insertion order
PersonOrder == <<"@I1@", "@I2@", "@I3@", "@I4@">>
PersonPtrs == {PersonOrder[i] : i \in 1..Len(PersonOrder)}
\* the families of the registry, in insertion order
FamilyOrder == <<"@F1@", "@F2@", "@F3@", "@F4@">>
FamilyPtrs == {FamilyOrder[i] : i \in 1..Len(FamilyOrder)}

IsDict(v) == v.shape = "dict"
NotADict == [shape |-> "other"]

\* in a field read as a string or as a dict: a value that is true and is neither
WrongType == "<wrong type>"

\* isinstance(person.get(key), list): a person records the Python type of the
\* value under "names" and under "events" (Absent when the key is missing), and
\* holds the items of the value when it is a list
IsList(person, key) == person.types[key] = "list"

\* n.get("type", "") on a name dict
NameType(n) == IF n.type = Absent THEN "" ELSE n.type

\* str.lower() raises AttributeError on a value that is no string
IsStr(v) == v # None /\ v # WrongType

safe_str(value) == IF value = None THEN "" ELSE value

\* str.lower() and re.sub(r"[^a-z0-9]+", "", ...) on the strings of the registries
Lower ==
    ("primary" :> "primary") @@ ("aka" :> "aka") @@ ("Smith" :> "smith") @@
    ("SMITH" :> "smith") @@ ("Smyth" :> "smyth") @@ ("Jones" :> "jones") @@
    ("John" :> "john") @@ ("Johnny" :> "johnny") @@ ("Joan" :> "joan") @@
    ("Jean" :> "jean") @@ ("Boston, MA" :> "boston, ma") @@ ("BIRT" :> "birt") @@
    ("DEAT" :> "deat") @@ ("birt" :> "birt") @@ ("" :> "") @@
    ("featherstonehaughley" :> "featherstonehaughley") @@
    ("featherstonehaughlay" :> "featherstonehaughlay") @@
    ("wolfeschlegelsteinhausenbergerdorffvoralternwarena" :>
        "wolfeschlegelsteinhausenbergerdorffvoralternwarena") @@
    ("wolfeschlegelsteinhausenbergerdorffvoralternwarxyz" :>
        "wolfeschlegelsteinhausenbergerdorffvoralternwarxyz")

Upper == ("BIRT" :> "BIRT") @@ ("DEAT" :> "DEAT") @@ ("birt" :> "BIRT") @@ ("" :> "") @@
         ("MARR" :> "MARR") @@ ("BURI" :> "BURI") @@ ("OCCU" :> "OCCU") @@ ("RESI" :> "RESI")

StripNonAlnum ==
    ("smith" :> "smith") @@ ("smyth" :> "smyth") @@ ("jones" :> "jones") @@
    ("john" :> "john") @@ ("johnny" :> "johnny") @@ ("joan" :> "joan") @@
    ("jean" :> "jean") @@ ("boston, ma" :> "bostonma") @@
    ("featherstonehaughley" :> "featherstonehaughley") @@
    ("featherstonehaughlay" :> "featherstonehaughlay") @@
    ("wolfeschlegelsteinhausenbergerdorffvoralternwarena" :>
        "wolfeschlegelsteinhausenbergerdorffvoralternwarena") @@
    ("wolfeschlegelsteinhausenbergerdorffvoralternwarxyz" :>
        "wolfeschlegelsteinhausenbergerdorffvoralternwarxyz")

normalize_token(token) == IF Falsy(token) THEN "" ELSE StripNonAlnum[Lower[token]]

\* difflib.SequenceMatcher(None, a, b).ratio() on two different non-empty tokens
SequenceMatcherRatio ==
    ({"john", "joan"} :> 7500) @@ ({"joan", "jean"} :> 7500) @@
    ({"john", "jean"} :> 5000) @@ ({"smith", "jones"} :> 2000) @@
    ({"smith", "smyth"} :> 8000) @@ ({"smyth", "jones"} :> 2000) @@
    ({"featherstonehaughley", "featherstonehaughlay"} :> 9500) @@
    ({"wolfeschlegelsteinhausenbergerdorffvoralternwarena",
      "wolfeschlegelsteinhausenbergerdorffvoralternwarxyz"} :> 9400)

jaro_ratio(a, b) ==
    IF a = "" /\ b = "" THEN 0
    ELSE IF a = "" \/ b = "" THEN 0
    ELSE IF a = b THEN One
    ELSE SequenceMatcherRatio[{a, b}]

\* re.search(r"(\d{4})", text) and int() on the date texts of the registries
YearIn == ("1 JAN 1850" :> 1850) @@ ("1850" :> 1850) @@ ("ABT 1851" :> 1851) @@
          ("UNKNOWN DATE" :> NoValue)

\* str(year)
YearStr == (1850 :> "1850") @@ (1851 :> "1851")

\* the first of the indices S a loop runs through, or 0 when there is none
FirstIndex(S) == IF S = {} THEN 0 ELSE CHOOSE i \in S : \A j \in S : i <= j

\* get_normalized_name_view, for a person without name_block and without the
\* single-string name fields: the names list decides
get_normalized_name_view(person) ==
    LET names == IF IsList(person, "names") THEN person.names ELSE <<>>
        p == FirstIndex({i \in 1..Len(names) :
                            /\ IsDict(names[i])
                            /\ IsStr(NameType(names[i]))
                            /\ Lower[NameType(names[i])] = "primary"})
        d == IF p # 0 THEN p ELSE FirstIndex({i \in 1..Len(names) : IsDict(names[i])})
        given == IF d # 0 THEN safe_str(IF Falsy(names[d].given) THEN "" ELSE names[d].given)
                 ELSE ""
        surname == IF d # 0
                   THEN safe_str(IF Falsy(names[d].surname) THEN "" ELSE names[d].surname)
                   ELSE ""
        given_n == normalize_token(given)
        surname_n == normalize_token(surname)
    IN [given |-> given, surname |-> surname,
        given_norm |-> IF given_n = "" THEN "unknown" ELSE given_n,
        surname_norm |-> IF surname_n = "" THEN "unknown" ELSE surname_n]

extract_normalized_given_surname(person) ==
    LET view == get_normalized_name_view(person)
    IN <<view.given_norm, view.surname_norm>>

\* the event dict returned, or None
extract_birth_event(person) ==
    LET events == IF IsList(person, "events") THEN person.events ELSE <<>>
        b == FirstIndex({i \in 1..Len(events) :
                            IsDict(events[i]) /\ Upper[safe_str(events[i].tag)] = "BIRT"})
        c == FirstIndex({i \in 1..Len(events) :
                            /\ IsDict(events[i])
                            /\ Upper[safe_str(events[i].tag)] \in {"CHR", "BAPM"}})
    IN IF b # 0 THEN [found |-> TRUE, evt |-> events[b]]
       ELSE IF c # 0 THEN [found |-> TRUE, evt |-> events[c]]
       ELSE [found |-> FALSE]

\* the year, or NoValue for None
extract_birth_year(person) ==
    LET b == extract_birth_event(person)
    IN IF ~b.found THEN NoValue
       ELSE IF Falsy(b.evt.date) THEN NoValue
       ELSE YearIn[b.evt.date]

extract_birth_year_bucket(person) ==
    LET year == extract_birth_year(person)
    IN IF year = NoValue THEN "UNKNOWN" ELSE YearStr[year]

\* an event's standard_place field holds the id of the standard place dict, or
\* None when there is no such dict or it has no id
extract_birth_place_uuid(person) ==
    LET b == extract_birth_event(person)
    IN IF ~b.found THEN "UNKNOWN"
       ELSE IF b.evt.standard_place # WrongType /\ safe_str(b.evt.standard_place) # ""
       THEN b.evt.standard_place
       ELSE IF safe_str(b.evt.place) = "" THEN "UNKNOWN"
       ELSE normalize_token(b.evt.place)

\* the key without its surname component
individual_blocking_key_no_surname(person) ==
    extract_birth_year_bucket(person) \o "|" \o extract_birth_place_uuid(person)

individual_blocking_key(person) ==
    LET surname_n == extract_normalized_given_surname(person)[2]
        surname_component == IF surname_n = "" THEN "unknown_surname" ELSE surname_n
    IN surname_component \o "|" \o extract_birth_year_bucket(person) \o "|"
           \o extract_birth_place_uuid(person)

\* blocks.setdefault(key, []).append(iid) on a dict kept as a sequence of
\* [key, ids] entries in insertion order
AppendToBlock(blks, key, iid) ==
    LET k == FirstIndex({i \in 1..Len(blks) : blks[i].key = key})
    IN IF k = 0 THEN Append(blks, [key |-> key, ids |-> <<iid>>])
       ELSE [blks EXCEPT ![k].ids = Append(@, iid)]

RECURSIVE BlocksFrom(_, _, _)
BlocksFrom(inds, i, blocks_) ==
    LET Turn(blks) ==
            IF i > Len(PersonOrder) THEN blks
            ELSE IF ~IsDict(inds[PersonOrder[i]]) THEN BlocksFrom(inds, i + 1, blks)
            ELSE BlocksFrom(inds, i + 1,
                            TheOne({AppendToBlock(blks, key, PersonOrder[i]) :
                                       key \in {individual_blocking_key(inds[PersonOrder[i]])}}))
    IN TheOne({Turn(blks) : blks \in {blocks_}})

build_individual_blocks(inds) == BlocksFrom(inds, 1, <<>>)

RECURSIVE PairsOfBlock(_, _, _, _, _)
\* the two loops over one block; prs.full says that max_pairs was reached
PairsOfBlock(ids, i, j, max_pairs, pairs_) ==
    LET Turn(prs) ==
            IF prs.full \/ i > Len(ids) THEN prs
            ELSE IF j > Len(ids) THEN PairsOfBlock(ids, i + 1, i + 2, max_pairs, prs)
            ELSE PairsOfBlock(ids, i, j + 1, max_pairs,
                              [list |-> Append(prs.list, <<ids[i], ids[j]>>),
                               full |-> Len(prs.list) + 1 >= max_pairs])
    IN TheOne({Turn(prs) : prs \in {pairs_}})

RECURSIVE PairsOfBlocks(_, _, _, _)
PairsOfBlocks(blks, k, max_pairs, pairs_) ==
    LET Turn(prs) ==
            IF prs.full \/ k > Len(blks) THEN prs
            ELSE IF Len(blks[k].ids) < 2 THEN PairsOfBlocks(blks, k + 1, max_pairs, prs)
            ELSE PairsOfBlocks(blks, k + 1, max_pairs,
                               PairsOfBlock(blks[k].ids, 1, 2, max_pairs, prs))
    IN TheOne({Turn(prs) : prs \in {pairs_}})

\* generate_block_pairs that stops one pair after max_pairs is reached
generate_block_pairs_late(blks, max_pairs) ==
    PairsOfBlocks(blks, 1, max_pairs + 1, [list |-> <<>>, full |-> FALSE]).list

generate_block_pairs(blks, max_pairs) ==
    PairsOfBlocks(blks, 1, max_pairs, [list |-> <<>>, full |-> FALSE]).list

\* name_similarity with a gate that also shuts at the threshold itself
name_similarity_shut_at_threshold(p1, p2) ==
    LET Compare(s1, s2, g1, g2) ==
            IF s1 = "" \/ s1 = "unknown" \/ s2 = "" \/ s2 = "unknown" THEN 0
            ELSE IF jaro_ratio(s1, s2) <= STRICT_SURNAME_MATCH_THRESHOLD THEN 0
            ELSE LET surname_score == jaro_ratio(s1, s2)
                     given_score ==
                         IF g1 # "" /\ g2 # "" /\ g1 # "unknown" /\ g2 # "unknown"
                         THEN jaro_ratio(g1, g2) ELSE 0
                 IN (7 * surname_score + 3 * given_score) \div 10
    IN TheOne({Compare(v1.surname_norm, v2.surname_norm, v1.given_norm, v2.given_norm) :
                  v1 \in {get_normalized_name_view(p1)},
                  v2 \in {get_normalized_name_view(p2)}})

name_similarity(p1, p2) ==
    LET Compare(s1, s2, g1, g2) ==
            IF s1 = "" \/ s1 = "unknown" \/ s2 = "" \/ s2 = "unknown" THEN 0
            ELSE IF jaro_ratio(s1, s2) < STRICT_SURNAME_MATCH_THRESHOLD THEN 0
            ELSE LET surname_score == jaro_ratio(s1, s2)
                     given_score ==
                         IF g1 # "" /\ g2 # "" /\ g1 # "unknown" /\ g2 # "unknown"
                         THEN jaro_ratio(g1, g2) ELSE 0
                 IN (7 * surname_score + 3 * given_score) \div 10
    IN TheOne({Compare(v1.surname_norm, v2.surname_norm, v1.given_norm, v2.given_norm) :
                  v1 \in {get_normalized_name_view(p1)},
                  v2 \in {get_normalized_name_view(p2)}})

birth_similarity(p1, p2) ==
    LET Compare(y1, y2) ==
            LET diff == IF y1 >= y2 THEN y1 - y2 ELSE y2 - y1
            IN IF y1 = NoValue \/ y2 = NoValue THEN 0
               ELSE IF diff = 0 THEN One
               ELSE IF diff <= 1 THEN 9000
               ELSE IF diff <= 3 THEN 7000
               ELSE IF diff <= 10 THEN 4000
               ELSE 0
    IN TheOne({Compare(y1, y2) :
                  y1 \in {extract_birth_year(p1)}, y2 \in {extract_birth_year(p2)}})

place_similarity(p1, p2) ==
    LET Compare(b1, b2) ==
            IF ~b1.found \/ ~b2.found THEN 0
            ELSE LET pid1 == safe_str(b1.evt.standard_place)
                     pid2 == safe_str(b2.evt.standard_place)
                     raw1 == normalize_token(safe_str(b1.evt.place))
                     raw2 == normalize_token(safe_str(b2.evt.place))
                 IN IF pid1 # "" /\ pid2 # "" THEN (IF pid1 = pid2 THEN One ELSE 0)
                    ELSE IF raw1 = "" /\ raw2 = "" THEN 0
                    ELSE jaro_ratio(raw1, raw2)
    IN TheOne({Compare(b1, b2) :
                  b1 \in {extract_birth_event(p1)}, b2 \in {extract_birth_event(p2)}})

\* the tags of the dicts met when iterating over person.get("events", []): a
\* value that is no list but can be iterated over yields no dict
EventTags(person) ==
    IF ~IsList(person, "events") THEN {}
    ELSE {Upper[safe_str(person.events[i].tag)] :
             i \in {k \in 1..Len(person.events) : IsDict(person.events[k])}}

event_similarity(p1, p2) ==
    LET Compare(tags1, tags2) ==
            IF tags1 = {} \/ tags2 = {} THEN 0
            ELSE (One * Cardinality(tags1 \cap tags2)) \div Cardinality(tags1 \cup tags2)
    IN TheOne({Compare(tags1, tags2) : tags1 \in {EventTags(p1)}, tags2 \in {EventTags(p2)}})

compute_individual_similarity(p1, p2) ==
    TheOne({[score |-> (40 * sims.name + 30 * sims.birth + 20 * sims.place
                          + 10 * sims.events) \div 100,
             details |-> sims] :
               sims \in {[name |-> name_similarity(p1, p2),
                          birth |-> birth_similarity(p1, p2),
                          place |-> place_similarity(p1, p2),
                          events |-> event_similarity(p1, p2)]}})

(***************************************************************************)
(* The exceptions of the scoring functions: each operator gives the name   *)
(* of the exception its function raises on the arguments, or None when the *)
(* function returns.                                                       *)
(***************************************************************************)
\* the loop that looks for the primary name calls n.get("type", "").lower() on
\* every dict up to the first primary one
get_normalized_name_view_raises(person) ==
    LET names == IF IsList(person, "names") THEN person.names ELSE <<>>
        bad == FirstIndex({i \in 1..Len(names) :
                              IsDict(names[i]) /\ ~IsStr(NameType(names[i]))})
        p == FirstIndex({i \in 1..Len(names) :
                            /\ IsDict(names[i])
                            /\ IsStr(NameType(names[i]))
                            /\ Lower[NameType(names[i])] = "primary"})
    IN IF bad # 0 /\ (p = 0 \/ bad < p) THEN "AttributeError" ELSE None

individual_blocking_key_raises(person) == get_normalized_name_view_raises(person)

\* the exception of the first individual, in insertion order, whose key raises
build_individual_blocks_raises(inds) ==
    LET k == FirstIndex({i \in 1..Len(PersonOrder) :
                            /\ IsDict(inds[PersonOrder[i]])
                            /\ individual_blocking_key_raises(inds[PersonOrder[i]]) # None})
    IN IF k = 0 THEN None ELSE individual_blocking_key_raises(inds[PersonOrder[k]])

name_similarity_raises(p1, p2) ==
    IF get_normalized_name_view_raises(p1) # None THEN get_normalized_name_view_raises(p1)
    ELSE get_normalized_name_view_raises(p2)

\* (evt.get("standard_place") or {}).get("id") on a value that is true and no dict
place_similarity_raises(p1, p2) ==
    LET Check(b1, b2) ==
            IF ~b1.found \/ ~b2.found THEN None
            ELSE IF b1.evt.standard_place = WrongType \/ b2.evt.standard_place = WrongType
            THEN "AttributeError"
            ELSE None
    IN TheOne({Check(b1, b2) :
                  b1 \in {extract_birth_event(p1)}, b2 \in {extract_birth_event(p2)}})

\* for e in p.get("events", []) on a value that cannot be iterated over
Iterable(person, key) == person.types[key] \in {Absent, "list", "str", "dict"}

event_similarity_raises(p1, p2) ==
    IF ~Iterable(p1, "events") \/ ~Iterable(p2, "events") THEN "TypeError" ELSE None

\* the four sub-scores are computed in the order name, birth, place, events
compute_individual_similarity_raises(p1, p2) ==
    IF name_similarity_raises(p1, p2) # None THEN name_similarity_raises(p1, p2)
    ELSE IF place_similarity_raises(p1, p2) # None THEN place_similarity_raises(p1, p2)
    ELSE event_similarity_raises(p1, p2)

\* the exception of the first pair whose scoring raises
ScorePairs_raises(inds, prs) ==
    LET Raises(k) ==
            IF ~IsDict(inds[prs[k][1]]) \/ ~IsDict(inds[prs[k][2]]) THEN None
            ELSE compute_individual_similarity_raises(inds[prs[k][1]], inds[prs[k][2]])
        Pick(k) == IF k = 0 THEN None ELSE Raises(k)
    IN TheOne({Pick(k) : k \in {FirstIndex({i \in 1..Len(prs) : Raises(i) # None})}})

collect_individual_candidates_raises(reg, max_pairs) ==
    IF build_individual_blocks_raises(reg.individuals) # None
    THEN build_individual_blocks_raises(reg.individuals)
    ELSE TheOne({ScorePairs_raises(reg.individuals, prs) :
                    prs \in {generate_block_pairs(build_individual_blocks(reg.individuals),
                                                  max_pairs)}})

RECURSIVE ScorePairs(_, _, _, _, _)
ScorePairs(inds, prs, k, min_score, candidates_) ==
    LET Keep(cands, a, b, sim) ==
            IF sim.score >= min_score
            THEN Append(cands, [id1 |-> a, id2 |-> b, score |-> sim.score,
                                details |-> sim.details])
            ELSE cands
        Turn(cands) ==
            IF k > Len(prs) THEN cands
            ELSE IF ~IsDict(inds[prs[k][1]]) \/ ~IsDict(inds[prs[k][2]])
            THEN ScorePairs(inds, prs, k + 1, min_score, cands)
            ELSE ScorePairs(inds, prs, k + 1, min_score,
                     TheOne({Keep(cands, prs[k][1], prs[k][2], sim) :
                                sim \in {compute_individual_similarity(inds[prs[k][1]],
                                                                       inds[prs[k][2]])}}))
    IN TheOne({Turn(cands) : cands \in {candidates_}})

\* the candidates returned, with the blocks and pairs the call went through
collect_individual_candidates(reg, min_score, max_pairs) ==
    LET Score(blks, prs) ==
            [blocks |-> blks, pairs |-> prs,
             candidates |-> ScorePairs(reg.individuals, prs, 1, min_score, <<>>)]
        Pair(blks) ==
            TheOne({Score(blks, prs) : prs \in {generate_block_pairs(blks, max_pairs)}})
    IN TheOne({Pair(blks) : blks \in {build_individual_blocks(reg.individuals)}})

\* sorted() on pointers: the pointers in lexicographic order
PtrsSorted == <<"@I1@", "@I2@", "@I3@", "@I4@">>

RECURSIVE SortedFrom(_, _)
SortedFrom(S, i) ==
    IF i > Len(PtrsSorted) THEN <<>>
    ELSE (IF PtrsSorted[i] \in S THEN <<PtrsSorted[i]>> ELSE <<>>) \o SortedFrom(S, i + 1)

sorted(S) == TheOne({SortedFrom(T, 1) : T \in {S}})

\* graph.setdefault(a, set()).add(b): the graph keeps its nodes in insertion order
AddEdge(graph, a, b) ==
    [order |-> IF a \in DOMAIN graph.adj THEN graph.order ELSE Append(graph.order, a),
     adj |-> Put(graph.adj, a, (IF a \in DOMAIN graph.adj THEN graph.adj[a] ELSE {}) \cup {b})]

RECURSIVE GraphOf_directed(_, _, _)
\* the graph with every pair entered from id1 to id2 only
GraphOf_directed(cands, k, graph_) ==
    LET Turn(graph) ==
            IF k > Len(cands) THEN graph
            ELSE IF Falsy(cands[k].id1) \/ Falsy(cands[k].id2)
            THEN GraphOf_directed(cands, k + 1, graph)
            ELSE GraphOf_directed(cands, k + 1,
                                  AddEdge(graph, cands[k].id1, cands[k].id2))
    IN TheOne({Turn(graph) : graph \in {graph_}})

RECURSIVE GraphOf(_, _, _)
GraphOf(cands, k, graph_) ==
    LET Turn(graph) ==
            IF k > Len(cands) THEN graph
            ELSE IF Falsy(cands[k].id1) \/ Falsy(cands[k].id2)
            THEN GraphOf(cands, k + 1, graph)
            ELSE GraphOf(cands, k + 1,
                     TheOne({AddEdge(g, cands[k].id2, cands[k].id1) :
                                g \in {AddEdge(graph, cands[k].id1, cands[k].id2)}}))
    IN TheOne({Turn(graph) : graph \in {graph_}})

RECURSIVE dfs_collect(_, _, _, _)
\* the while loop of _dfs_collect; a set is pushed in sorted order
dfs_collect(stack_, graph, visited_, out_) ==
    LET Turn(stack, visited, out) ==
            IF stack = <<>> THEN [out |-> out, visited |-> visited]
            ELSE LET n == stack[Len(stack)]
                     rest == SubSeq(stack, 1, Len(stack) - 1)
                 IN IF n \notin visited
                    THEN dfs_collect(
                             rest \o sorted(IF n \in DOMAIN graph.adj THEN graph.adj[n] ELSE {}),
                             graph, visited \cup {n}, Append(out, n))
                    ELSE dfs_collect(rest, graph, visited, out)
    IN TheOne({Turn(stack, visited, out) :
                  stack \in {stack_}, visited \in {visited_}, out \in {out_}})

RECURSIVE ClustersFrom(_, _, _, _, _)
ClustersFrom(graph, i, visited_, cid_counter, clusters_) ==
    LET Collected(found, clus) ==
            ClustersFrom(graph, i + 1, found.visited, cid_counter + 1,
                Append(clus, [cid |-> "C" \o ToString(cid_counter),
                              members |-> sorted({found.out[k] : k \in 1..Len(found.out)})]))
        Turn(visited, clus) ==
            IF i > Len(graph.order) THEN clus
            ELSE IF graph.order[i] \in visited
            THEN ClustersFrom(graph, i + 1, visited, cid_counter, clus)
            ELSE TheOne({Collected(found, clus) :
                            found \in {dfs_collect(<<graph.order[i]>>, graph, visited, <<>>)}})
    IN TheOne({Turn(visited, clus) : visited \in {visited_}, clus \in {clusters_}})

\* build_clusters on a graph that holds every individual of the registry as a
\* node before the candidates are read
build_clusters_with_singletons(cands) ==
    TheOne({ClustersFrom(graph, 1, {}, 1, <<>>) :
               graph \in {GraphOf(cands, 1,
                                  [order |-> PersonOrder,
                                   adj |-> [p \in DOMAIN registry.individuals |-> {}]])}})

\* the clusters dict as a sequence of [cid, members] entries in insertion order
build_clusters(cands) ==
    TheOne({ClustersFrom(graph, 1, {}, 1, <<>>) :
               graph \in {GraphOf(cands, 1, [order |-> <<>>, adj |-> EmptyMap])}})

RECURSIVE ScoreMapOf(_, _, _)
\* score_map, with the key f"{a}|{b}" kept as the pair <<a, b>>
ScoreMapOf(cands, k, score_map_) ==
    LET Turn(score_map) ==
            IF k > Len(cands) THEN score_map
            ELSE IF Falsy(cands[k].id1) \/ Falsy(cands[k].id2)
            THEN ScoreMapOf(cands, k + 1, score_map)
            ELSE ScoreMapOf(cands, k + 1,
                     Put(Put(score_map, <<cands[k].id1, cands[k].id2>>, cands[k].score),
                         <<cands[k].id2, cands[k].id1>>, cands[k].score))
    IN TheOne({Turn(score_map) : score_map \in {score_map_}})

RECURSIVE IndexPairs(_, _, _)
\* for i in range(n): for j in range(i + 1, n), as a list of index pairs
IndexPairs(n, i, j) ==
    IF i > n THEN <<>>
    ELSE IF j > n THEN IndexPairs(n, i + 1, i + 2)
    ELSE <<(<<i, j>>)>> \o IndexPairs(n, i, j + 1)

RECURSIVE MinOf(_, _)
MinOf(seq, i) == IF i = Len(seq) THEN seq[i] ELSE Min(seq[i], MinOf(seq, i + 1))
RECURSIVE MaxOf(_, _)
MaxOf(seq, i) ==
    IF i = Len(seq) THEN seq[i]
    ELSE TheOne({IF seq[i] >= m THEN seq[i] ELSE m : m \in {MaxOf(seq, i + 1)}})

\* pair_scores with the pairs missing from score_map left out
PairScoresKnown(members, score_map) ==
    LET Known(ip) ==
            SelectSeq(ip, LAMBDA q : <<members[q[1]], members[q[2]]>> \in DOMAIN score_map)
        Scores(ip) == [k \in 1..Len(ip) |-> score_map[<<members[ip[k][1]], members[ip[k][2]]>>]]
    IN TheOne({Scores(ip) : ip \in {Known(IndexPairs(Len(members), 1, 2))}})

PairScores(members, score_map) ==
    LET Scores(ip) == [k \in 1..Len(ip) |->
                         IF <<members[ip[k][1]], members[ip[k][2]]>> \in DOMAIN score_map
                         THEN score_map[<<members[ip[k][1]], members[ip[k][2]]>>] ELSE 0]
    IN TheOne({Scores(ip) : ip \in {IndexPairs(Len(members), 1, 2)}})

\* decide_cluster_merge with the auto-merge test on the largest pair score
decide_cluster_merge_auto_by_max(cid, members, score_map, auto_thresh, review_thresh) ==
    LET pair_scores == PairScores(members, score_map)
        min_s == MinOf(pair_scores, 1)
        max_s == MaxOf(pair_scores, 1)
    IN IF Len(members) = 1 \/ pair_scores = <<>>
       THEN [cid |-> cid, action |-> "no_merge", members |-> members]
       ELSE [cid |-> cid,
             action |-> IF max_s >= auto_thresh THEN "auto_merge"
                        ELSE IF min_s >= review_thresh THEN "review"
                        ELSE "no_merge",
             members |-> members, min_score |-> min_s, max_score |-> max_s,
             pair_scores |-> pair_scores]

\* decide_cluster_merge with the review test on the largest pair score
decide_cluster_merge_review_by_max(cid, members, score_map, auto_thresh, review_thresh) ==
    LET pair_scores == PairScores(members, score_map)
        min_s == MinOf(pair_scores, 1)
        max_s == MaxOf(pair_scores, 1)
    IN IF Len(members) = 1 \/ pair_scores = <<>>
       THEN [cid |-> cid, action |-> "no_merge", members |-> members]
       ELSE [cid |-> cid,
             action |-> IF min_s >= auto_thresh THEN "auto_merge"
                        ELSE IF max_s >= review_thresh THEN "review"
                        ELSE "no_merge",
             members |-> members, min_score |-> min_s, max_score |-> max_s,
             pair_scores |-> pair_scores]

decide_cluster_merge(cid, members, score_map, auto_thresh, review_thresh) ==
    LET Decide(pair_scores, min_s, max_s) ==
            [cid |-> cid,
             action |-> IF min_s >= auto_thresh THEN "auto_merge"
                        ELSE IF min_s >= review_thresh THEN "review"
                        ELSE "no_merge",
             members |-> members, min_score |-> min_s, max_score |-> max_s,
             pair_scores |-> pair_scores]
        Scored(pair_scores) ==
            IF pair_scores = <<>>
            THEN [cid |-> cid, action |-> "no_merge", members |-> members]
            ELSE TheOne({Decide(pair_scores, min_s, max_s) :
                            min_s \in {MinOf(pair_scores, 1)},
                            max_s \in {MaxOf(pair_scores, 1)}})
    IN IF Len(members) = 1
       THEN [cid |-> cid, action |-> "no_merge", members |-> members]
       ELSE TheOne({Scored(pair_scores) : pair_scores \in {PairScores(members, score_map)}})

\* the plan dict as a sequence of decisions in insertion order
build_merge_plan(clus, cands, auto_merge_threshold, review_threshold) ==
    LET Plan(score_map) ==
            [k \in 1..Len(clus) |->
                decide_cluster_merge(clus[k].cid, clus[k].members, score_map,
                                     auto_merge_threshold, review_threshold)]
    IN TheOne({Plan(score_map) : score_map \in {ScoreMapOf(cands, 1, EmptyMap)}})

\* del d[k]
Remove(d, k) == [x \in DOMAIN d \ {k} |-> d[x]]

\* d.get(k, default)
Get(d, k, default) == IF k \in DOMAIN d THEN d[k] ELSE default

RECURSIVE MergeMembers_last_gender(_, _, _, _)
\* the loop with the gender set by every member that has one
MergeMembers_last_gender(merged_, members, i, inds) ==
    LET Turn(merged) ==
            IF i > Len(members) THEN merged
            ELSE IF members[i] \notin DOMAIN inds \/ ~IsDict(inds[members[i]])
            THEN MergeMembers_last_gender(merged, members, i + 1, inds)
            ELSE MergeMembers_last_gender(
                     [merged EXCEPT !.names = IF IsList(inds[members[i]], "names")
                                              THEN @ \o inds[members[i]].names ELSE @,
                                    !.events = IF IsList(inds[members[i]], "events")
                                               THEN @ \o inds[members[i]].events ELSE @,
                                    !.gender = IF inds[members[i]].gender # None
                                               THEN inds[members[i]].gender ELSE @],
                     members, i + 1, inds)
    IN TheOne({Turn(merged) : merged \in {merged_}})

RECURSIVE MergeMembers(_, _, _, _)
\* the loop of merge_individual_group over the members
MergeMembers(merged_, members, i, inds) ==
    LET Turn(merged) ==
            IF i > Len(members) THEN merged
            ELSE IF members[i] \notin DOMAIN inds \/ ~IsDict(inds[members[i]])
            THEN MergeMembers(merged, members, i + 1, inds)
            ELSE MergeMembers(
                     [merged EXCEPT !.names = IF IsList(inds[members[i]], "names")
                                              THEN @ \o inds[members[i]].names ELSE @,
                                    !.events = IF IsList(inds[members[i]], "events")
                                               THEN @ \o inds[members[i]].events ELSE @,
                                    !.gender = IF @ = None /\ inds[members[i]].gender # None
                                               THEN inds[members[i]].gender ELSE @],
                     members, i + 1, inds)
    IN TheOne({Turn(merged) : merged \in {merged_}})

\* merge_individual_group recording the first member only
merge_individual_group_first_source(new_id, members, inds) ==
    MergeMembers([shape |-> "dict", id |-> new_id, source_ids |-> <<members[1]>>,
                  names |-> <<>>, events |-> <<>>, gender |-> None],
                 members, 1, inds)

merge_individual_group(new_id, members, inds) ==
    MergeMembers([shape |-> "dict", id |-> new_id, source_ids |-> members,
                  names |-> <<>>, events |-> <<>>, gender |-> None],
                 members, 1, inds)

\* a family dict holds husband and wife (Absent when the key is missing) and
\* children, a list or a value that is no list
rewrite_family_stale_children(fam, id_map) ==
    IF ~IsDict(fam) THEN fam
    ELSE [fam EXCEPT !.husband = IF @ = Absent THEN @ ELSE Get(id_map, @, @),
                     !.wife = IF @ = Absent THEN @ ELSE Get(id_map, @, @)]

rewrite_family(fam, id_map) ==
    IF ~IsDict(fam) THEN fam
    ELSE [fam EXCEPT !.husband = IF @ = Absent THEN @ ELSE Get(id_map, @, @),
                     !.wife = IF @ = Absent THEN @ ELSE Get(id_map, @, @),
                     !.children = IF @.is_list
                                  THEN [@ EXCEPT !.items =
                                           [k \in 1..Len(@) |-> Get(id_map, @[k], @[k])]]
                                  ELSE @]

rewrite_families(fams, id_map) == [fid \in DOMAIN fams |-> rewrite_family(fams[fid], id_map)]

RECURSIVE RedirectMembers_keeping(_, _, _, _)
\* the redirection without the removal of the originals
RedirectMembers_keeping(st_, members, i, new_id) ==
    LET Turn(st) ==
            IF i > Len(members) THEN st
            ELSE RedirectMembers_keeping([st EXCEPT !.id_map = Put(@, members[i], new_id)],
                                         members, i + 1, new_id)
    IN TheOne({Turn(st) : st \in {st_}})

RECURSIVE RedirectMembers(_, _, _, _)
\* for m in members: id_map[m] = new_id; del new_individuals[m]
RedirectMembers(st_, members, i, new_id) ==
    LET Turn(st) ==
            IF i > Len(members) THEN st
            ELSE RedirectMembers(
                     [new_individuals |-> IF members[i] \in DOMAIN st.new_individuals
                                          THEN Remove(st.new_individuals, members[i])
                                          ELSE st.new_individuals,
                      id_map |-> Put(st.id_map, members[i], new_id)],
                     members, i + 1, new_id)
    IN TheOne({Turn(st) : st \in {st_}})

RECURSIVE KeepMembers_unmapped(_, _, _)
\* the members of a cluster that is not merged, taken out of id_map
KeepMembers_unmapped(st_, members, i) ==
    LET Turn(st) ==
            IF i > Len(members) THEN st
            ELSE KeepMembers_unmapped([st EXCEPT !.id_map = Remove(@, members[i])],
                                      members, i + 1)
    IN TheOne({Turn(st) : st \in {st_}})

RECURSIVE KeepMembers(_, _, _)
\* for m in members: id_map.setdefault(m, m)
KeepMembers(st_, members, i) ==
    LET Turn(st) ==
            IF i > Len(members) THEN st
            ELSE KeepMembers(
                     [st EXCEPT !.id_map = IF members[i] \in DOMAIN @ THEN @
                                           ELSE Put(@, members[i], members[i])],
                     members, i + 1)
    IN TheOne({Turn(st) : st \in {st_}})

RECURSIVE ApplyPlan(_, _, _, _)
ApplyPlan(st_, plan, k, inds) ==
    LET Unify(st, new_id, members) ==
            ApplyPlan(
                RedirectMembers(
                    [st EXCEPT !.new_individuals =
                        Put(@, new_id, merge_individual_group(new_id, members, inds))],
                    members, 1, new_id),
                plan, k + 1, inds)
        Turn(st) ==
            IF k > Len(plan) THEN st
            ELSE IF plan[k].action = "auto_merge" /\ Len(plan[k].members) >= 2
            THEN Unify(st, "U" \o plan[k].cid, plan[k].members)
            ELSE ApplyPlan(KeepMembers(st, plan[k].members, 1), plan, k + 1, inds)
    IN TheOne({Turn(st) : st \in {st_}})

apply_merges_to_registry(reg, plan) ==
    LET identity == [new_individuals |-> reg.individuals,
                     id_map |-> [iid \in DOMAIN reg.individuals |-> iid]]
        Result(st) == [individuals |-> st.new_individuals,
                       families |-> rewrite_families(reg.families, st.id_map),
                       id_map |-> st.id_map]
    IN TheOne({Result(st) :
                  st \in {IF plan = <<>> THEN identity
                          ELSE ApplyPlan(identity, plan, 1, reg.individuals)}})

\* one turn of the loop of rewrite_families with f2 = fam: the family dict of
\* the input is written where it lies
rewrite_family_heap_aliased(fam, id_map) ==
    [fam |-> rewrite_family(fam, id_map), f2 |-> rewrite_family(fam, id_map)]

\* the two dicts of one turn of the loop of rewrite_families, as the turn leaves
\* them: f2 = dict(fam) is a new dict, husband, wife and children are assigned
\* in f2, the children as a list built anew; fam is only read
rewrite_family_heap(fam, id_map) ==
    [fam |-> fam, f2 |-> rewrite_family(fam, id_map)]

\* the registry passed to apply_merges_to_registry as the call leaves it:
\* new_individuals, id_map and out = dict(registry) are new dicts, the
\* individuals are only read, the family dicts are those rewrite_families read
registry_after_apply(reg, plan) ==
    [reg EXCEPT !.families =
        [fid \in DOMAIN @ |->
            rewrite_family_heap(@[fid], apply_merges_to_registry(reg, plan).id_map).fam]]

(***************************************************************************)
(* The registries resolved: four individuals, each one of six records, and *)
(* four families that name every individual as a spouse and as a child     *)
(***************************************************************************)
NameEntry(given, surname, type) ==
    [shape |-> "dict", given |-> given, surname |-> surname, type |-> type]

EventEntry(tag, date, place, standard_place) ==
    [shape |-> "dict", tag |-> tag, date |-> date, place |-> place,
     standard_place |-> standard_place]

Person(names, events, gender) ==
    [shape |-> "dict", names |-> names, events |-> events, gender |-> gender,
     types |-> [names |-> "list", events |-> "list"]]

Persons ==
    {Person(<<NameEntry("Johnny", "Smyth", "aka"), NameEntry("John", "Smith", "primary")>>,
            <<EventEntry("BIRT", "1 JAN 1850", "Boston, MA", "boston-ma-us")>>, "M"),
     Person(<<NameEntry("Joan", "SMITH", "primary")>>,
            <<EventEntry("birt", "1850", None, "boston-ma-us")>>, "F"),
     Person(<<NameEntry("Jean", "Smith", "aka")>>,
            <<EventEntry("BIRT", "1 JAN 1850", "Boston, MA", "boston-ma-us")>>, None),
     Person(<<NameEntry(None, "Smith", "primary")>>,
            <<EventEntry("BIRT", "ABT 1851", "Boston, MA", None)>>, None),
     Person(<<NameEntry("John", "Jones", "primary")>>,
            <<EventEntry("DEAT", None, None, None),
              EventEntry("BIRT", "1850", None, "boston-ma-us")>>, "M"),
     NotADict}

Family(husband, wife, children) ==
    [shape |-> "dict", husband |-> husband, wife |-> wife, children |-> children]

List(items) == [is_list |-> TRUE, items |-> items]
NoList == [is_list |-> FALSE]

Families ==
    ("@F1@" :> Family("@I1@", "@I2@", List(<<"@I3@", "@I4@">>))) @@
    ("@F2@" :> Family("@I3@", "@I4@", List(<<"@I1@", "@I404@", "@I2@">>))) @@
    ("@F3@" :> NotADict) @@
    ("@F4@" :> Family(Absent, None, NoList))

Configs ==
    {[min_score |-> m, review_threshold |-> DEFAULT_REVIEW_THRESHOLD,
      auto_merge_threshold |-> DEFAULT_AUTO_MERGE_THRESHOLD, max_pairs |-> x] :
        m \in {DEFAULT_MIN_SCORE, 9500}, x \in {SmallMaxPairs, DEFAULT_MAX_PAIRS}}

\* main: the four stages, one after the other
CollectIndividualCandidates ==
    /\ stage = "loaded"
    /\ \E exc \in {collect_individual_candidates_raises(registry, config.max_pairs)} :
          IF exc # None
          THEN /\ raised' = exc
               /\ stage' = "failed"
               /\ UNCHANGED <<blocks, pairs, candidates>>
          ELSE /\ \E out \in {collect_individual_candidates(registry, config.min_score,
                                                              config.max_pairs)} :
                     /\ blocks' = out.blocks
                     /\ pairs' = out.pairs
                     /\ candidates' = out.candidates
               /\ stage' = "candidates"
               /\ UNCHANGED raised
    /\ UNCHANGED <<registry, config, clusters, merge_plan, new_registry, cluster, decision>>
    /\ UNCHANGED <<linkVars, promoteVars, moreVars>>

BuildClusters ==
    /\ stage = "candidates"
    /\ clusters' = build_clusters(candidates)
    /\ stage' = "clusters"
    /\ UNCHANGED <<registry, config, blocks, pairs, candidates, merge_plan, new_registry,
                   cluster, decision, raised>>
    /\ UNCHANGED <<linkVars, promoteVars, moreVars>>

BuildMergePlan ==
    /\ stage = "clusters"
    /\ merge_plan' = build_merge_plan(clusters, candidates, config.auto_merge_threshold,
                                      config.review_threshold)
    /\ stage' = "plan"
    /\ UNCHANGED <<registry, config, blocks, pairs, candidates, clusters, new_registry,
                   cluster, decision, raised>>
    /\ UNCHANGED <<linkVars, promoteVars, moreVars>>

ApplyMergesToRegistry ==
    /\ stage = "plan"
    /\ new_registry' = apply_merges_to_registry(registry, merge_plan)
    /\ registry' = registry_after_apply(registry, merge_plan)
    /\ stage' = "applied"
    /\ UNCHANGED <<config, blocks, pairs, candidates, clusters, merge_plan,
                   cluster, decision, raised>>
    /\ UNCHANGED <<linkVars, promoteVars, moreVars>>

InitRes ==
    /\ NoEntities
    /\ NoMore
    /\ registry \in {[individuals |-> inds, families |-> Families] :
                        inds \in [PersonPtrs -> Persons]}
    /\ config \in Configs
    /\ stage = "loaded"
    /\ blocks = <<>>
    /\ pairs = <<>>
    /\ candidates = <<>>
    /\ clusters = <<>>
    /\ merge_plan = <<>>
    /\ new_registry = None
    /\ cluster = None
    /\ decision = None
    /\ raised = None

NextRes == CollectIndividualCandidates \/ BuildClusters \/ BuildMergePlan
               \/ ApplyMergesToRegistry

SpecRes == InitRes /\ [][NextRes]_vars

(***************************************************************************)
(* Registries with malformed individuals: a name whose type is None or     *)
(* missing, names or events that are None or missing, a standard_place     *)
(* that is a string, an individual that is no dict                         *)
(***************************************************************************)
LoosePerson(names, names_type, events, events_type, gender) ==
    [shape |-> "dict", names |-> names, events |-> events, gender |-> gender,
     types |-> [names |-> names_type, events |-> events_type]]

JohnSmith == NameEntry("John", "Smith", "primary")
Born1850 == EventEntry("BIRT", "1850", None, "boston-ma-us")

MalformedPersons ==
    {Person(<<JohnSmith>>, <<Born1850>>, "M"),
     Person(<<NameEntry("John", "Smith", None)>>, <<Born1850>>, "M"),
     Person(<<JohnSmith, NameEntry("Johnny", "Smyth", None)>>, <<Born1850>>, "M"),
     Person(<<NameEntry("John", "Smith", Absent)>>, <<Born1850>>, "M"),
     Person(<<JohnSmith>>, <<EventEntry("BIRT", None, None, None)>>, "M"),
     Person(<<JohnSmith>>, <<EventEntry("BIRT", "1850", "Boston, MA", WrongType)>>, "M"),
     LoosePerson(<<JohnSmith>>, "list", <<>>, "NoneType", "M"),
     LoosePerson(<<JohnSmith>>, "list", <<>>, Absent, "M"),
     LoosePerson(<<>>, "NoneType", <<Born1850>>, "list", None),
     NotADict}

InitMalformed ==
    /\ NoEntities
    /\ NoMore
    /\ registry \in {[individuals |-> inds, families |-> Families] :
                        inds \in [PersonPtrs -> MalformedPersons]}
    /\ config = [min_score |-> DEFAULT_MIN_SCORE, review_threshold |-> DEFAULT_REVIEW_THRESHOLD,
                 auto_merge_threshold |-> DEFAULT_AUTO_MERGE_THRESHOLD,
                 max_pairs |-> DEFAULT_MAX_PAIRS]
    /\ stage = "loaded"
    /\ blocks = <<>>
    /\ pairs = <<>>
    /\ candidates = <<>>
    /\ clusters = <<>>
    /\ merge_plan = <<>>
    /\ new_registry = None
    /\ cluster = None
    /\ decision = None
    /\ raised = None

SpecMalformed == InitMalformed /\ [][NextRes]_vars

(***************************************************************************)
(* Registries of duplicates: John Smith born 1850 in boston-ma-us, written *)
(* in two ways and with more or fewer events, beside an individual of the  *)
(* same block without a given name and one of another surname              *)
(***************************************************************************)
DupPersons ==
    {Person(<<NameEntry("John", "Smith", "primary")>>, <<Born1850>>, "M"),
     Person(<<NameEntry("John", "SMITH", "primary")>>,
            <<EventEntry("birt", "1 JAN 1850", "Boston, MA", "boston-ma-us")>>, None),
     Person(<<NameEntry("John", "Smith", "primary")>>,
            <<Born1850, EventEntry("DEAT", None, None, None)>>, "M"),
     Person(<<NameEntry("John", "Smith", "primary")>>,
            <<Born1850, EventEntry("DEAT", None, None, None),
              EventEntry("MARR", None, None, None), EventEntry("BURI", None, None, None),
              EventEntry("OCCU", None, None, None), EventEntry("RESI", None, None, None)>>, "M"),
     Person(<<NameEntry(None, "Smith", "primary")>>, <<Born1850>>, None),
     Person(<<NameEntry("John", "Jones", "primary")>>, <<Born1850>>, "M")}

InitDup ==
    /\ NoEntities
    /\ NoMore
    /\ registry \in {[individuals |-> inds, families |-> Families] :
                        inds \in [PersonPtrs -> DupPersons]}
    /\ config = [min_score |-> DEFAULT_MIN_SCORE, review_threshold |-> DEFAULT_REVIEW_THRESHOLD,
                 auto_merge_threshold |-> DEFAULT_AUTO_MERGE_THRESHOLD,
                 max_pairs |-> DEFAULT_MAX_PAIRS]
    /\ stage = "loaded"
    /\ blocks = <<>>
    /\ pairs = <<>>
    /\ candidates = <<>>
    /\ clusters = <<>>
    /\ merge_plan = <<>>
    /\ new_registry = None
    /\ cluster = None
    /\ decision = None
    /\ raised = None

SpecDup == InitDup /\ [][NextRes]_vars

(***************************************************************************)
(* Per-block scoring by workers, one for each block. The pairs are those   *)
(* of generate_block_pairs, cut at max_pairs in the order of the blocks;   *)
(* a worker scores the pairs of its block and hands over the ones kept     *)
(* when it finishes; clustering starts when every worker has finished.     *)
(***************************************************************************)
\* the pairs of the k-th block among the pairs generated
PairsOfWorker(blks, prs, k) ==
    SelectSeq(prs, LAMBDA p : p[1] \in Range(blks[k].ids))

\* the barrier opens as soon as one worker has finished
AllScored_any(blks, done) == blks = <<>> \/ done # {}

\* the barrier: every block has been scored
AllScored(blks, done) == done = 1..Len(blks)

StartWorkers ==
    /\ stage = "loaded"
    /\ \E blks \in {build_individual_blocks(registry.individuals)} :
          /\ blocks' = blks
          /\ pairs' = generate_block_pairs(blks, config.max_pairs)
    /\ stage' = "scoring"
    /\ UNCHANGED <<registry, config, candidates, clusters, merge_plan, new_registry,
                   cluster, decision, raised>>
    /\ UNCHANGED <<linkVars, promoteVars, moreVars>>

\* the worker of one block scores its pairs and hands over the candidates kept
ScoreBlock ==
    /\ stage = "scoring"
    /\ \E k \in (1..Len(blocks)) \ scored :
          /\ candidates' = candidates \o ScorePairs(registry.individuals,
                                                    PairsOfWorker(blocks, pairs, k), 1,
                                                    config.min_score, <<>>)
          /\ scored' = scored \cup {k}
    /\ UNCHANGED <<registry, config, stage, blocks, pairs, clusters, merge_plan,
                   new_registry, cluster, decision, raised>>
    /\ UNCHANGED <<linkVars, promoteVars, buildVars, callVars, storeVars, idVars>>

Barrier ==
    /\ stage = "scoring"
    /\ AllScored(blocks, scored)
    /\ stage' = "candidates"
    /\ UNCHANGED <<registry, config, blocks, pairs, candidates, clusters, merge_plan,
                   new_registry, cluster, decision, raised>>
    /\ UNCHANGED <<linkVars, promoteVars, moreVars>>

WorkerPersons ==
    {Person(<<NameEntry("John", "Smith", "primary")>>, <<Born1850>>, "M"),
     Person(<<NameEntry(None, "Smith", "primary")>>, <<Born1850>>, None),
     Person(<<NameEntry("John", "Jones", "primary")>>, <<Born1850>>, "M"),
     Person(<<NameEntry("John", "Jones", "primary")>>,
            <<Born1850, EventEntry("DEAT", None, None, None)>>, "M")}

InitWorkers ==
    /\ NoEntities
    /\ NoMore
    /\ registry \in {[individuals |-> inds, families |-> Families] :
                        inds \in [PersonPtrs -> WorkerPersons]}
    /\ config \in {[min_score |-> DEFAULT_MIN_SCORE,
                    review_threshold |-> DEFAULT_REVIEW_THRESHOLD,
                    auto_merge_threshold |-> DEFAULT_AUTO_MERGE_THRESHOLD,
                    max_pairs |-> x] : x \in {1, SmallMaxPairs, DEFAULT_MAX_PAIRS}}
    /\ stage = "loaded"
    /\ blocks = <<>>
    /\ pairs = <<>>
    /\ candidates = <<>>
    /\ clusters = <<>>
    /\ merge_plan = <<>>
    /\ new_registry = None
    /\ cluster = None
    /\ decision = None
    /\ raised = None

SpecWorkers ==
    InitWorkers /\ [][StartWorkers \/ ScoreBlock \/ Barrier \/ BuildClusters
                         \/ BuildMergePlan]_vars

(***************************************************************************)
(* name_similarity on its own: two individuals whose surnames are equal,   *)
(* missing, or as alike as 0.80, 0.94 and 0.95, and whose given names are  *)
(* equal, different or missing                                             *)
(***************************************************************************)
SurnameGroups ==
    {{"Smith", "Smyth", "Jones", None},
     {"featherstonehaughley", "featherstonehaughlay", None},
     {"wolfeschlegelsteinhausenbergerdorffvoralternwarena",
      "wolfeschlegelsteinhausenbergerdorffvoralternwarxyz"}}

InitName ==
    /\ call \in UNION {
           {<<Person(<<NameEntry(g1, s1, "primary")>>, <<>>, None),
              Person(<<NameEntry(g2, s2, "primary")>>, <<>>, None)>> :
                s1 \in group, s2 \in group, g1 \in {"John", None}, g2 \in {"John", "Joan", None}} :
           group \in SurnameGroups}
    /\ result = <<>>
    /\ NoBuild
    /\ NoStore
    /\ NoIdentity /\ NoWork
    /\ NoEntities
    /\ NoResolution

NameSimilarity ==
    /\ result = <<>>
    /\ result' = <<name_similarity(call[1], call[2])>>
    /\ UNCHANGED <<linkVars, promoteVars, resVars, buildVars, storeVars, idVars, workVars, call>>

SpecName == InitName /\ [][NameSimilarity]_vars

(***************************************************************************)
(* build_merge_plan on one cluster: any list of one to three distinct      *)
(* members, any candidate list over the three pairs, thresholds in either  *)
(* order                                                                   *)
(***************************************************************************)
MaxMembers == 3         \* longest member list handed to decide_cluster_merge

DecideOrder == <<"@I1@", "@I2@", "@I3@">>
DecidePairs == <<(<<"@I1@", "@I2@">>), (<<"@I1@", "@I3@">>), (<<"@I2@", "@I3@">>)>>

CandidateLists ==
    {SelectSeq([k \in 1..Len(DecidePairs) |->
                   [id1 |-> DecidePairs[k][1], id2 |-> DecidePairs[k][2], score |-> ch[k]]],
               LAMBDA c : c.score # NoValue) :
        ch \in [1..Len(DecidePairs) -> {NoValue, 7000, 8500, 9500}]}

MemberLists ==
    {m \in SeqsUpTo(Range(DecideOrder), MaxMembers) :
        /\ Len(m) >= 1
        /\ \A i, j \in 1..Len(m) : i # j => m[i] # m[j]}

InitDecide ==
    /\ NoEntities
    /\ NoMore
    /\ registry = None
    /\ config \in {[min_score |-> DEFAULT_MIN_SCORE, review_threshold |-> r,
                    auto_merge_threshold |-> a, max_pairs |-> DEFAULT_MAX_PAIRS] :
                      r \in {DEFAULT_REVIEW_THRESHOLD},
                      a \in {DEFAULT_AUTO_MERGE_THRESHOLD, DEFAULT_MIN_SCORE}}
    /\ stage = "cluster"
    /\ blocks = <<>>
    /\ pairs = <<>>
    /\ candidates \in CandidateLists
    /\ clusters = <<>>
    /\ merge_plan = <<>>
    /\ new_registry = None
    /\ cluster \in {[cid |-> "C1", members |-> m] : m \in MemberLists}
    /\ decision = None
    /\ raised = None

DecideClusterMerge ==
    /\ stage = "cluster"
    /\ decision' = build_merge_plan(<<cluster>>, candidates, config.auto_merge_threshold,
                                    config.review_threshold)[1]
    /\ stage' = "decided"
    /\ UNCHANGED <<registry, config, blocks, pairs, candidates, clusters, merge_plan,
                   new_registry, cluster, raised>>
    /\ UNCHANGED <<linkVars, promoteVars, moreVars>>

NextDecide == DecideClusterMerge

SpecDecide == InitDecide /\ [][NextDecide]_vars

(***************************************************************************)
(* build_clusters on its own: any list of up to MaxEdges candidate pairs   *)
(* over the four pointers, in either direction, repeated or not, a pointer *)
(* paired with itself included                                             *)
(***************************************************************************)
MaxEdges == 3       \* longest candidate list handed to build_clusters

InitCluster ==
    /\ call \in SeqsUpTo([id1 : PersonPtrs, id2 : PersonPtrs, score : {9500}], MaxEdges)
    /\ result = <<>>
    /\ NoEntities /\ NoResolution /\ NoBuild /\ NoStore /\ NoIdentity /\ NoWork

BuildClustersOn ==
    /\ result = <<>>
    /\ result' = <<build_clusters(call)>>
    /\ UNCHANGED <<linkVars, promoteVars, resVars, buildVars, storeVars, idVars, workVars, call>>

SpecCluster == InitCluster /\ [][BuildClustersOn]_vars

(***************************************************************************)
(* generate_block_pairs on its own: the four pointers put into up to three *)
(* blocks or left out, any max_pairs from 1 to MaxCap                      *)
(***************************************************************************)
MaxCap == 7         \* the largest max_pairs tried: one more than the pairs of four ids

RECURSIVE BlocksBy(_, _, _)
\* the blocks dict filled in the order of the pointers, key[ptr] the key of ptr
BlocksBy(key, i, blks) ==
    IF i > Len(PersonOrder) THEN blks
    ELSE IF key[PersonOrder[i]] = None THEN BlocksBy(key, i + 1, blks)
    ELSE BlocksBy(key, i + 1, AppendToBlock(blks, key[PersonOrder[i]], PersonOrder[i]))

InitPairs ==
    /\ call \in {[blocks |-> BlocksBy(key, 1, <<>>), max_pairs |-> x] :
                    key \in [PersonPtrs -> {"smith|1850", "smyth|1850", "jones|1850", None}],
                    x \in 1..MaxCap}
    /\ result = <<>>
    /\ NoEntities /\ NoResolution /\ NoBuild /\ NoStore /\ NoIdentity /\ NoWork

GenerateBlockPairs ==
    /\ result = <<>>
    /\ result' = <<generate_block_pairs(call.blocks, call.max_pairs)>>
    /\ UNCHANGED <<linkVars, promoteVars, resVars, buildVars, storeVars, idVars, workVars, call>>

SpecPairs == InitPairs /\ [][GenerateBlockPairs]_vars

(***************************************************************************)
(* merge_individual_group on its own: two or three distinct members, one   *)
(* of them possibly missing from the individuals, which may hold a value   *)
(* that is no dict or a dict whose names are no list                       *)
(***************************************************************************)
MergePersons ==
    {Person(<<JohnSmith>>, <<Born1850>>, "M"),
     Person(<<JohnSmith>>, <<Born1850, EventEntry("DEAT", None, None, None)>>, None),
     Person(<<NameEntry("Joan", "Smith", "primary"), NameEntry("Jo", "Smith", "aka")>>,
            <<>>, "F"),
     LoosePerson(<<>>, "NoneType", <<Born1850>>, "list", "F"),
     NotADict}

InitMerge ==
    /\ call \in [members : {m \in SeqsUpTo({"@I1@", "@I2@", "@I3@", DanglingPtr}, MaxMembers) :
                               /\ Len(m) >= 2
                               /\ \A i, j \in 1..Len(m) : i # j => m[i] # m[j]},
                 individuals : [{"@I1@", "@I2@", "@I3@"} -> MergePersons]]
    /\ result = <<>>
    /\ NoEntities /\ NoResolution /\ NoBuild /\ NoStore /\ NoIdentity /\ NoWork

MergeIndividualGroup ==
    /\ result = <<>>
    /\ result' = <<merge_individual_group("UC1", call.members, call.individuals)>>
    /\ UNCHANGED <<linkVars, promoteVars, resVars, buildVars, storeVars, idVars, workVars, call>>

SpecMerge == InitMerge /\ [][MergeIndividualGroup]_vars

(***************************************************************************)
(* Properties of the resolution engine                                     *)
(***************************************************************************)
SurnameOf(iid) == get_normalized_name_view(registry.individuals[iid]).surname_norm

\* the places of iid in the blocks
PlacesInBlocks(iid) ==
    {<<k, i>> \in (1..Len(blocks)) \X (1..Len(PersonOrder)) :
        i <= Len(blocks[k].ids) /\ blocks[k].ids[i] = iid}

\* C8: whatever the registry and max_pairs, no pair generated from the blocks
\* joins two individuals whose normalized surnames differ while neither is the
\* unknown sentinel, and every individual that is a dict is in exactly one
\* block, once.
C8_BlockingExclusive ==
    stage \in {"candidates", "clusters", "plan", "applied"} =>
        /\ \A k \in 1..Len(pairs) :
               LET a == SurnameOf(pairs[k][1])
                   b == SurnameOf(pairs[k][2])
               IN ~(a # b /\ a # "unknown" /\ b # "unknown")
        /\ \A iid \in PersonPtrs :
               IsDict(registry.individuals[iid]) => Cardinality(PlacesInBlocks(iid)) = 1

\* two individuals that only their surnames keep apart, and pairs cut short
C8_Witness ==
    /\ stage = "candidates"
    /\ config.max_pairs = SmallMaxPairs
    /\ Len(pairs) = SmallMaxPairs
    /\ \E a, b \in PersonPtrs :
          /\ IsDict(registry.individuals[a]) /\ IsDict(registry.individuals[b])
          /\ SurnameOf(a) # SurnameOf(b)
          /\ individual_blocking_key_no_surname(registry.individuals[a])
                 = individual_blocking_key_no_surname(registry.individuals[b])

\* the score of the unordered pair {a, b} in the candidate set, 0 when it is not there
CandidateScore(a, b) ==
    LET k == FirstIndex({i \in 1..Len(candidates) :
                            {candidates[i].id1, candidates[i].id2} = {a, b}})
    IN IF k = 0 THEN 0 ELSE candidates[k].score

\* C6: a cluster of one member is decided no_merge; a larger one is decided by
\* the least score over all its unordered member pairs, a pair missing from the
\* candidates counting 0: auto_merge at or above auto_merge_threshold, else
\* review at or above review_threshold, else no_merge.
C6_DecisionByMinimum ==
    stage = "decided" =>
        LET m == cluster.members
            scores == {CandidateScore(m[i], m[j]) :
                          <<i, j>> \in {q \in (1..Len(m)) \X (1..Len(m)) : q[1] < q[2]}}
            least == CHOOSE s \in scores : \A t \in scores : s <= t
        IN decision.action =
               IF Len(m) = 1 THEN "no_merge"
               ELSE IF least >= config.auto_merge_threshold THEN "auto_merge"
               ELSE IF least >= config.review_threshold THEN "review"
               ELSE "no_merge"

\* three members, two of them joined only through the third, both kept scores
\* at or above the auto-merge threshold
C6_Witness ==
    /\ stage = "decided"
    /\ Len(cluster.members) = 3
    /\ Len(candidates) = 2
    /\ \A k \in 1..Len(candidates) : candidates[k].score >= config.auto_merge_threshold
    /\ decision.action = "no_merge"

\* the entries of the merge plan decided auto_merge, and their members
AutoMerges == {k \in 1..Len(merge_plan) : merge_plan[k].action = "auto_merge"}
MergedAway == UNION {Range(merge_plan[k].members) : k \in AutoMerges}
SyntheticPtr(k) == "U" \o merge_plan[k].cid
InputPtrs == DOMAIN registry.individuals

\* C3: id_map is defined on every individual pointer of the input registry;
\* it sends every member of an auto_merge cluster to the synthetic pointer of
\* that cluster and every other input pointer to itself.
C3_IdMapTotalExact ==
    stage = "applied" =>
        /\ InputPtrs \subseteq DOMAIN new_registry.id_map
        /\ \A k \in AutoMerges : \A m \in Range(merge_plan[k].members) :
               new_registry.id_map[m] = SyntheticPtr(k)
        /\ \A iid \in InputPtrs \ MergedAway : new_registry.id_map[iid] = iid

\* one cluster merged, one cluster kept for review
C3_Witness ==
    /\ stage = "applied"
    /\ AutoMerges # {}
    /\ \E k \in 1..Len(merge_plan) : merge_plan[k].action = "review"
    /\ \E iid \in InputPtrs : new_registry.id_map[iid] # iid

HeldPtrs(fam) ==
    {fam.husband, fam.wife} \cup (IF fam.children.is_list THEN Range(fam.children.items) ELSE {})

\* C2: in the registry returned, every husband, wife or child field of a family
\* that held a member of an auto_merge cluster holds that cluster's synthetic
\* pointer, and no family field holds the pointer of an individual that is no
\* longer among the output individuals.
C2_ReferentialIntegrity ==
    stage = "applied" =>
        \A fid \in DOMAIN registry.families :
            LET fin == registry.families[fid]
                fout == new_registry.families[fid]
            IN IsDict(fin) =>
                 /\ \A k \in AutoMerges :
                      /\ fin.husband \in Range(merge_plan[k].members)
                             => fout.husband = SyntheticPtr(k)
                      /\ fin.wife \in Range(merge_plan[k].members)
                             => fout.wife = SyntheticPtr(k)
                      /\ fin.children.is_list =>
                             \A i \in 1..Len(fin.children.items) :
                                 fin.children.items[i] \in Range(merge_plan[k].members)
                                     => fout.children.items[i] = SyntheticPtr(k)
                 /\ HeldPtrs(fout) \cap (InputPtrs \ DOMAIN new_registry.individuals) = {}

\* a family whose husband and a child were merged away, next to a dangling
\* child pointer and a wife that was kept
C2_Witness ==
    /\ stage = "applied"
    /\ new_registry.families["@F2@"].husband = "UC1"
    /\ new_registry.families["@F2@"].wife = "@I4@"
    /\ new_registry.families["@F2@"].children.items = <<"UC1", "@I404@", "@I2@">>

\* C11: the resolution stages never raise on malformed data: whatever
\* individuals the registry holds (a value that is no dict, or a dict whose
\* names, name type, events, date, place or standard_place are missing, None
\* or of the wrong type), the run ends without an exception.
C11_NeverRaises == raised = None

\* the attachments of the built registry made from the inline OBJE node at key
AttachmentsFrom(key) ==
    LET locs == AttachmentLocs(Entities)
    IN {Entities[locs[n][1]][locs[n][2]].attachments[locs[n][3]] :
           n \in {m \in 1..Len(locs) : locs[m][2] = key[1]}}

\* C12: the load of a tree that holds no record without a pointer goes through
\* (build_registry rejects a record without a pointer, and raises nothing else), and after
\* link_entities and promote_inline_media_objects every inline OBJE node of an
\* individual, a family or a source that carries a file path or a title has its
\* pointer-less attachment promoted and bound to a registered media object
C12_PromotionReachesAll ==
    /\ built \in {None, "built", "ValueError"}
    /\ (built = "built" /\ promote_runs >= 1) =>
          /\ promote_result.raised = None
          /\ \A key \in DOMAIN tree :
                should_promote_inline_obje(tree[key]) =>
                    \E att \in AttachmentsFrom(key) :
                        /\ Falsy(att.pointer)
                        /\ att.raw.lineno = key[2]
                        /\ att.promoted
                        /\ att.media_object_id \in DOMAIN media_objects

\* the two surnames are known and their similarity is sim
SurnamesAlike(sim) ==
    LET s1 == get_normalized_name_view(call[1]).surname_norm
        s2 == get_normalized_name_view(call[2]).surname_norm
    IN s1 # "unknown" /\ s2 # "unknown" /\ jaro_ratio(s1, s2) = sim

\* C13: name_similarity is 0 when a surname is unknown or the similarity of the
\* normalized surnames is below 0.95, whatever the given names; from 0.95 on it is
\* 0.7 x surname similarity + 0.3 x given-name similarity, where a given name
\* that is unknown is similar to nothing
C13_StrictSurnameGate ==
    result # <<>> =>
        LET v1 == get_normalized_name_view(call[1])
            v2 == get_normalized_name_view(call[2])
            surname_similarity == jaro_ratio(v1.surname_norm, v2.surname_norm)
            given_similarity ==
                IF v1.given_norm = "unknown" \/ v2.given_norm = "unknown" THEN 0
                ELSE jaro_ratio(v1.given_norm, v2.given_norm)
        IN IF v1.surname_norm = "unknown" \/ v2.surname_norm = "unknown" THEN result[1] = 0
           ELSE IF surname_similarity < 9500 THEN result[1] = 0
           ELSE result[1] * 10 = 7 * surname_similarity + 3 * given_similarity

\* the gate lets a pair through at 0.95: 0.7 x 0.95 + 0.3 x 0.75
C13_AtThreshold ==
    /\ SurnamesAlike(9500)
    /\ get_normalized_name_view(call[2]).given_norm = "joan"
    /\ result = <<8900>>

\* a and b are two individuals with the same normalized surname and given name,
\* the same birth year and the same standardized birth place id
ExactDuplicates(a, b) ==
    LET p1 == registry.individuals[a]
        p2 == registry.individuals[b]
    IN /\ a # b
       /\ get_normalized_name_view(p1).surname_norm # "unknown"
       /\ get_normalized_name_view(p1).surname_norm = get_normalized_name_view(p2).surname_norm
       /\ get_normalized_name_view(p1).given_norm = get_normalized_name_view(p2).given_norm
       /\ get_normalized_name_view(p1).given_norm # "unknown"
       /\ extract_birth_year(p1) = extract_birth_year(p2)
       /\ extract_birth_year(p1) # NoValue
       /\ extract_birth_event(p1).found /\ extract_birth_event(p2).found
       /\ extract_birth_event(p1).evt.standard_place = extract_birth_event(p2).evt.standard_place
       /\ extract_birth_event(p1).evt.standard_place \notin {None, WrongType}

\* a and b are in one cluster decided auto_merge, and the output holds one
\* individual for them, whose source_ids name both, in place of the two
MergedTogether(a, b) ==
    /\ \E k \in AutoMerges : {a, b} \subseteq Range(merge_plan[k].members)
    /\ Cardinality({u \in DOMAIN new_registry.individuals :
                       /\ "source_ids" \in DOMAIN new_registry.individuals[u]
                       /\ {a, b} \subseteq Range(new_registry.individuals[u].source_ids)}) = 1
    /\ {a, b} \cap DOMAIN new_registry.individuals = {}
    /\ new_registry.id_map[a] = new_registry.id_map[b]

\* every two individuals of the block of a score at least the auto-merge threshold
BlockScoresHigh(a) ==
    LET inds == registry.individuals
        block == {c \in DOMAIN inds :
                     individual_blocking_key(inds[c]) = individual_blocking_key(inds[a])}
    IN \A c, d \in block :
           c # d => compute_individual_similarity(inds[c], inds[d]).score
                       >= config.auto_merge_threshold

\* C14 as stated: with the default thresholds, any two exact duplicates of a
\* registry end in one cluster decided auto_merge and in one output individual
\* whose source_ids name both
C14_ExactDuplicatesMerged ==
    stage = "applied" =>
        \A a, b \in InputPtrs : ExactDuplicates(a, b) => MergedTogether(a, b)

\* C14 amended: two exact duplicates are merged when every two individuals of
\* their block score at least the auto-merge threshold with each other
C14_ExactDuplicatesMergedInHighBlock ==
    stage = "applied" =>
        \A a, b \in InputPtrs :
            (ExactDuplicates(a, b) /\ BlockScoresHigh(a)) => MergedTogether(a, b)

\* two exact duplicates merged, beside a third individual of their block that has
\* more events, and one of another surname
C14_Witness ==
    /\ stage = "applied"
    /\ ExactDuplicates("@I1@", "@I2@")
    /\ BlockScoresHigh("@I1@")
    /\ MergedTogether("@I1@", "@I2@")
    /\ Len(registry.individuals["@I3@"].events) = 2
    /\ new_registry.id_map["@I3@"] = new_registry.id_map["@I1@"]
    /\ "@I4@" \in DOMAIN new_registry.individuals

\* the key an entity is to be found under: its pointer, for a media object without
\* a pointer its uuid
KeyOf(kind, entity) ==
    IF kind = "media_objects" /\ Falsy(entity.pointer) THEN entity.uuid ELSE entity.pointer

\* the entity most recently registered under key for kind, in a list of one
LatestUnder(kind, key) ==
    LET calls == {i \in 1..Len(registered) :
                     registered[i].kind = kind /\ KeyOf(kind, registered[i].entity) = key}
    IN IF calls = {} THEN <<>>
       ELSE <<registered[CHOOSE i \in calls : \A j \in calls : j <= i].entity>>

\* C15: after any sequence of register_* calls, get_<kind>(p) returns the entity most
\* recently registered under p for that kind, and None if none was; the key of every
\* stored entry is its entity's pointer (a media object's pointer, or its uuid when it
\* has no pointer); and a register_* call leaves the maps of all other kinds unchanged
C15_StoreInvariant ==
    /\ [](\A kind \in DOMAIN Store :
            /\ \A key \in {"@X1@", "@X2@", "@X3@", "@O1@", PrevUuid, "uuid[record|OBJE|@O1@]"} :
                  get_entity(Store, kind, key) = LatestUnder(kind, key)
            /\ \A key \in DOMAIN Store[kind] : KeyOf(kind, Store[kind][key]) = key)
    /\ [][\A kind \in DOMAIN Store :
             kind # registered'[Len(registered')].kind =>
                 [individuals |-> individuals', families |-> families', sources |-> sources',
                  notes |-> notes', media_objects |-> media_objects'][kind] = Store[kind]]_vars

\* an individual registered twice under one pointer, the second record kept, and a
\* family under the same pointer
C15_Witness ==
    /\ Len(registered) = 3
    /\ registered[1].kind = "individuals" /\ registered[2].kind = "individuals"
    /\ registered[3].kind = "families"
    /\ registered[1].entity.pointer = "@X1@"
    /\ registered[1].entity # registered[2].entity
    /\ get_entity(Store, "individuals", "@X1@") = <<registered[2].entity>>
    /\ get_entity(Store, "families", "@X1@") = <<registered[3].entity>>

\* the calls recorded that returned
Returned == {i \in 1..Len(uuid_calls) : uuid_calls[i].raised = None}

C17_IdentityFactoryTotal ==
    \A i \in 1..Len(uuid_calls) :
        uuid_calls[i].site \in {"build_individual", "promote_entity", "build_uuid_index"} =>
            /\ uuid_calls[i].raised = None
            /\ uuid_calls[i].site # "promote_entity" =>
                  (Falsy(uuid_calls[i].pointer) <=> uuid_calls[i].value = None)

\* C18: two events of one owning record that differ in tag, in date text or in
\* place text are given different identities, and the uuid stored on an extracted
\* event is uuid_for_event(owner uuid, tag, date text, place text)
C18_EventIdentityContentSensitive ==
    (result # <<>> /\ call.record_uuid # None) =>
        /\ call.nodes[1] # call.nodes[2] => result[1] # result[2]
        /\ \A k \in 1..2 :
              result[k] = uuid_for_event(call.record_uuid, call.nodes[k].tag,
                                         OrEmpty(call.nodes[k].date),
                                         OrEmpty(call.nodes[k].place))

\* what the sequential collect_individual_candidates keeps for the registry
SequentialCandidates ==
    collect_individual_candidates(registry, config.min_score, config.max_pairs).candidates

\* the clusters and the merge plan of the sequential run
SequentialClusters == build_clusters(SequentialCandidates)

SequentialPlan ==
    build_merge_plan(SequentialClusters, SequentialCandidates,
                     config.auto_merge_threshold, config.review_threshold)

\* a decision of the merge plan without the id of its cluster
WithoutCid(d) == [x \in DOMAIN d \ {"cid"} |-> d[x]]

Jumps(tokens, i) == tokens[i] > 0 /\ (i = 1 \/ tokens[i] > tokens[i - 1] + 1)

\* the most recent token before the i-th that is one level below it
ParentOf(tokens, i) ==
    LET below == {j \in 1..(i - 1) : tokens[j] = tokens[i] - 1}
    IN CHOOSE j \in below : \A k \in below : k <= j

\* the members of a set of token places, in input order
InInputOrder(S, n) == SelectSeq([i \in 1..n |-> i], LAMBDA i : i \in S)

\* C21: segment_records raises GEDCOMStructureError exactly when a token is more
\* than one level above the token before it or a token above level 0 comes first;
\* otherwise it returns the level-0 nodes only, in input order, and every token of
\* a level L > 0 is the last child, when it is read, of the most recent node of
\* level L - 1 before it
C21_SegmentRecords ==
    result # <<>> =>
        LET out == result[1]
            n == Len(call)
        IN /\ out.raised = "GEDCOMStructureError" <=> \E i \in 1..n : Jumps(call, i)
           /\ out.raised \in {None, "GEDCOMStructureError"}
           /\ out.raised = None =>
                 /\ out.records = InInputOrder({i \in 1..n : call[i] = 0}, n)
                 /\ \A j \in 1..n :
                       out.children[j]
                           = InInputOrder({i \in 1..n : call[i] > 0 /\ ParentOf(call, i) = j}, n)

\* a record with two children of level 1, the first of them with a child of its own
C21_Witness ==
    /\ call = <<0, 1, 2, 1>>
    /\ result # <<>>
    /\ result[1].raised = None
    /\ result[1].records = <<1>>
    /\ result[1].children[1] = <<2, 4>>
    /\ result[1].children[2] = <<3>>

\* the individuals that take part in a kept candidate pair
Paired == UNION {{c.id1, c.id2} : c \in Range(candidates)}

\* the clusters that hold the pointer
ClustersOf(ptr) == {k \in 1..Len(clusters) : ptr \in Range(clusters[k].members)}

\* C22 (as stated): every individual of the registry that takes part in no kept
\* candidate pair is a cluster of its own and has a no_merge entry in the merge
\* plan; the clusters cover every individual exactly once
C22_SingletonsClustered ==
    /\ stage \in {"clusters", "plan", "applied"} =>
          \A ptr \in InputPtrs :
              /\ Cardinality(ClustersOf(ptr)) = 1
              /\ ptr \notin Paired =>
                    \E k \in ClustersOf(ptr) : clusters[k].members = <<ptr>>
    /\ stage \in {"plan", "applied"} =>
          \A ptr \in InputPtrs \ Paired :
              \E k \in 1..Len(merge_plan) :
                  merge_plan[k].members = <<ptr>> /\ merge_plan[k].action = "no_merge"

\* C22 (amended): the clusters cover the individuals of the kept candidate pairs,
\* each exactly once, and every cluster and every entry of the merge plan has two
\* members or more; an individual that takes part in no kept pair is in no
\* cluster and has no entry in the merge plan, and the output registry keeps it
\* under its own pointer
C22_ClustersCoverPaired ==
    /\ stage \in {"clusters", "plan", "applied"} =>
          /\ \A ptr \in Paired : Cardinality(ClustersOf(ptr)) = 1
          /\ \A ptr \in InputPtrs \ Paired : ClustersOf(ptr) = {}
          /\ \A k \in 1..Len(clusters) : Len(clusters[k].members) >= 2
    /\ stage \in {"plan", "applied"} =>
          /\ Len(merge_plan) = Len(clusters)
          /\ \A k \in 1..Len(merge_plan) : merge_plan[k].members = clusters[k].members
    /\ stage = "applied" =>
          \A ptr \in InputPtrs \ Paired :
              /\ ptr \in DOMAIN new_registry.individuals
              /\ new_registry.individuals[ptr] = registry.individuals[ptr]
              /\ new_registry.id_map[ptr] = ptr

\* @I1@ and @I2@ are a kept pair and a cluster, @I3@ and @I4@ are in no pair
C22_Witness ==
    /\ stage = "applied"
    /\ Paired = {"@I1@", "@I2@"}
    /\ Len(clusters) = 1
    /\ clusters[1].members = <<"@I1@", "@I2@">>
    /\ IsDict(registry.individuals["@I3@"])
    /\ IsDict(registry.individuals["@I4@"])

\* the ids of the pairs of a candidate list
IdsOf(cands) == UNION {{c.id1, c.id2} : c \in Range(cands)}

RECURSIVE JoinedTo(_, _)
\* the ids a path of pairs joins to the ids of S
JoinedTo(cands, S) ==
    LET T == S \cup {c.id2 : c \in {d \in Range(cands) : d.id1 \in S}}
                \cup {c.id1 : c \in {d \in Range(cands) : d.id2 \in S}}
    IN IF T = S THEN S ELSE JoinedTo(cands, T)

\* C23: build_clusters returns the connected components of the undirected graph of
\* the candidate pairs: the clusters are pairwise disjoint, two ids are in one
\* cluster exactly when a path of pairs joins them, every id of a pair is in a
\* cluster, and the traversal ends with every id collected once
C23_ConnectedComponents ==
    result # <<>> =>
        LET clus == result[1]
        IN /\ \A k, l \in 1..Len(clus) :
                 k # l => Range(clus[k].members) \cap Range(clus[l].members) = {}
           /\ \A k \in 1..Len(clus) :
                 /\ Len(clus[k].members) = Cardinality(Range(clus[k].members))
                 /\ clus[k].members # <<>>
           /\ UNION {Range(clus[k].members) : k \in 1..Len(clus)} = IdsOf(call)
           /\ \A a, b \in IdsOf(call) :
                 (\E k \in 1..Len(clus) : {a, b} \subseteq Range(clus[k].members))
                     <=> b \in JoinedTo(call, {a})

\* a chain: @I3@ is joined to @I1@ through @I2@ only, @I4@ is in no pair
C23_Witness ==
    /\ Len(call) = 2
    /\ call[1].id1 = "@I3@" /\ call[1].id2 = "@I2@"
    /\ call[2].id1 = "@I1@" /\ call[2].id2 = "@I2@"
    /\ result # <<>>
    /\ Len(result[1]) = 1
    /\ result[1][1].members = <<"@I1@", "@I2@", "@I3@">>

\* the unordered pairs of one block: (i, j) with i < j, in member order
AllPairsOfBlock(ids) ==
    LET ip == SelectSeq([k \in 1..(Len(ids) * Len(ids)) |->
                            <<((k - 1) \div Len(ids)) + 1, ((k - 1) % Len(ids)) + 1>>],
                        LAMBDA p : p[1] < p[2])
    IN [k \in 1..Len(ip) |-> <<ids[ip[k][1]], ids[ip[k][2]]>>]

RECURSIVE AllPairs(_, _)
\* the enumeration without a cap: the blocks in insertion order
AllPairs(blks, k) ==
    IF k > Len(blks) THEN <<>> ELSE AllPairsOfBlock(blks[k].ids) \o AllPairs(blks, k + 1)

\* C24: for max_pairs >= 1 generate_block_pairs returns the first
\* min(max_pairs, number of pairs within the blocks) pairs of the enumeration
\* without a cap, in its order
C24_CapIsPrefix ==
    result # <<>> =>
        LET all == AllPairs(call.blocks, 1)
        IN /\ Len(result[1]) = Min(call.max_pairs, Len(all))
           /\ result[1] = SubSeq(all, 1, Len(result[1]))

\* two blocks of two members with max_pairs = 1: the pair of the first block only
C24_Witness ==
    /\ Len(call.blocks) = 2
    /\ Len(call.blocks[1].ids) = 2 /\ Len(call.blocks[2].ids) = 2
    /\ call.max_pairs = 1
    /\ result = <<(<<(<<call.blocks[1].ids[1], call.blocks[1].ids[2]>>)>>)>>

RECURSIVE Concat(_)
\* the lists of a list, one after the other
Concat(lists) == IF lists = <<>> THEN <<>> ELSE Head(lists) \o Concat(Tail(lists))

\* the members that are held as dicts, in member order
MembersRead ==
    SelectSeq(call.members,
              LAMBDA m : m \in DOMAIN call.individuals /\ IsDict(call.individuals[m]))

\* C25: merge_individual_group builds one individual whose source_ids are all the
\* member pointers, whose names and events are those of the members one after the
\* other, in member order and with repetitions kept, and whose gender is that of
\* the first member that has one; a member that is missing or is no dict adds
\* nothing, and names or events that are no list add nothing
C25_MergedIndividual ==
    result # <<>> =>
        LET merged == result[1]
            read == MembersRead
            gendered == SelectSeq(read, LAMBDA m : call.individuals[m].gender # None)
        IN /\ merged.id = "UC1"
           /\ merged.source_ids = call.members
           /\ merged.names
                 = Concat([k \in 1..Len(read) |->
                              IF IsList(call.individuals[read[k]], "names")
                              THEN call.individuals[read[k]].names ELSE <<>>])
           /\ merged.events
                 = Concat([k \in 1..Len(read) |->
                              IF IsList(call.individuals[read[k]], "events")
                              THEN call.individuals[read[k]].events ELSE <<>>])
           /\ merged.gender = IF gendered = <<>> THEN None
                              ELSE call.individuals[gendered[1]].gender

\* three members: a missing one, one without gender, and a woman; the man who is
\* no member adds nothing
C25_Witness ==
    /\ call.members = <<DanglingPtr, "@I2@", "@I3@">>
    /\ call.individuals["@I1@"] = Person(<<JohnSmith>>, <<Born1850>>, "M")
    /\ call.individuals["@I2@"] = Person(<<JohnSmith>>,
                                        <<Born1850, EventEntry("DEAT", None, None, None)>>, None)
    /\ IsDict(call.individuals["@I3@"])
    /\ IsList(call.individuals["@I3@"], "names")
    /\ call.individuals["@I3@"].gender = "F"
    /\ result # <<>>
    /\ result[1].gender = "F"
    /\ Len(result[1].names) = 3
    /\ Len(result[1].events) = 2
    /\ Len(result[1].source_ids) = 3

\* the node carries a file path that is not empty or a title that is not empty
CarriesFileOrTitle(node) ==
    \/ node.file # Absent /\ ~Falsy(node.file)
    \/ ~Falsy(TitlValue(node)) /\ ~Falsy(Strip(TitlValue(node)))

\* the attachments the latest run promoted
NewlyPromoted ==
    {loc \in Range(AttachmentLocs(Entities)) :
        /\ Entities[loc[1]][loc[2]].attachments[loc[3]].promoted
        /\ ~promote_prev.attachments[loc[1]][loc[2]][loc[3]].promoted}

\* C26: an inline OBJE node is promoted only if it carries a file path or a title
\* that is not empty; a run over a tree without such a node passes every inline
\* attachment by: it returns 0 and raises nothing
C26_PromotionHeuristic ==
    promote_runs >= 1 =>
        /\ \A loc \in NewlyPromoted :
              LET att == Entities[loc[1]][loc[2]].attachments[loc[3]]
                  key == <<att.raw.owner_pointer, att.raw.lineno>>
              IN key \in DOMAIN tree /\ CarriesFileOrTitle(tree[key])
        /\ (\A key \in DOMAIN tree : ~CarriesFileOrTitle(tree[key])) =>
              /\ promote_result.raised = None
              /\ promote_result.returned = 0


\* the inline attachments the latest run found unpromoted over a node that
\* should_promote_inline_obje accepts
QualifyingPending ==
    {loc \in Range(AttachmentLocs(Entities)) :
        LET att == Entities[loc[1]][loc[2]].attachments[loc[3]]
            key == <<att.raw.owner_pointer, att.raw.lineno>>
        IN /\ Falsy(att.pointer)
           /\ ~promote_prev.attachments[loc[1]][loc[2]][loc[3]].promoted
           /\ key \in DOMAIN tree
           /\ should_promote_inline_obje(tree[key])}

\* C27: a promotion run binds every qualifying inline attachment to the media
\* object registered under the node's identity, creating one only when that
\* identity is not yet a key of registry.media_objects, and the value it returns
\* is the growth of registry.media_objects
C27_PromotionDeduplicates ==
    promote_runs >= 1 =>
        /\ promote_result.raised = None
        /\ promote_result.returned =
              Cardinality(DOMAIN media_objects) - Cardinality(promote_prev.keys)
        /\ promote_prev.keys \subseteq DOMAIN media_objects
        /\ \A loc \in QualifyingPending :
              LET att == Entities[loc[1]][loc[2]].attachments[loc[3]]
              IN att.promoted /\ att.media_object_id \in DOMAIN media_objects


\* the scores of the unordered member pairs of the cluster decided
ClusterPairScores ==
    {CandidateScore(cluster.members[i], cluster.members[j]) :
        <<i, j>> \in {q \in (1..Len(cluster.members)) \X (1..Len(cluster.members)) :
                         q[1] < q[2]}}

\* the cluster decided has the pairwise scores low and high, under the default
\* thresholds 0.92 and 0.80
DecidedWithScores(low, high) ==
    /\ stage = "decided"
    /\ config.auto_merge_threshold = DEFAULT_AUTO_MERGE_THRESHOLD
    /\ config.review_threshold = DEFAULT_REVIEW_THRESHOLD
    /\ ClusterPairScores = {low, high}

\* C28 as stated: a cluster with pairwise scores 0.70 and 0.95 is decided review
\* under auto_merge_threshold 0.92 and review_threshold 0.80
C28_SeventyIsReview ==
    DecidedWithScores(7000, 9500) => decision.action = "review"

\* C28: under auto_merge_threshold 0.92 and review_threshold 0.80 a cluster with
\* pairwise scores 0.70 and 0.95 is decided no_merge, its least score 0.70 being
\* below the review threshold, and one with pairwise scores 0.85 and 0.95 is
\* decided review
C28_SeventyIsNoMerge ==
    /\ DecidedWithScores(7000, 9500) =>
          /\ decision.action = "no_merge"
          /\ decision.min_score = 7000 /\ decision.max_score = 9500
    /\ DecidedWithScores(8500, 9500) =>
          /\ decision.action = "review"
          /\ decision.min_score = 8500 /\ decision.max_score = 9500

\* three members, every pair scored, 0.70 and 0.95 among the scores
C28_Witness ==
    /\ DecidedWithScores(7000, 9500)
    /\ Len(cluster.members) = 3
    /\ Len(candidates) = 3
    /\ decision.action = "no_merge"


\* a and b are a kept candidate pair whose score reaches the auto-merge threshold
ComparedAtAuto(a, b) ==
    \E k \in 1..Len(candidates) :
        /\ {candidates[k].id1, candidates[k].id2} = {a, b}
        /\ candidates[k].score >= config.auto_merge_threshold

\* C29: with auto_merge_threshold > 0 every two members of a cluster decided
\* auto_merge are a kept candidate pair with a score at or above the threshold,
\* so a cluster held together through a third member only is not auto-merged,
\* and two input individuals that id_map sends to one synthetic pointer have
\* been compared with each other
C29_NoTransitiveOverMerge ==
    config.auto_merge_threshold > 0 =>
        /\ \A k \in AutoMerges : \A a, b \in Range(merge_plan[k].members) :
              a # b => ComparedAtAuto(a, b)
        /\ stage = "applied" =>
              \A a, b \in InputPtrs :
                  (a # b /\ new_registry.id_map[a] = new_registry.id_map[b])
                      => ComparedAtAuto(a, b)

\* a cluster of three whose kept pairs all reach the auto-merge threshold, with
\* two members never compared, has gone through apply_merges_to_registry unmerged
C29_Witness ==
    /\ stage = "applied"
    /\ \E k \in 1..Len(merge_plan) :
          LET m == merge_plan[k].members IN
          /\ Len(m) = 3
          /\ \E a, b \in Range(m) :
                /\ a # b
                /\ \A c \in 1..Len(candidates) : {candidates[c].id1, candidates[c].id2} # {a, b}
          /\ \A c \in 1..Len(candidates) :
                {candidates[c].id1, candidates[c].id2} \subseteq Range(m)
                    => candidates[c].score >= config.auto_merge_threshold
          /\ merge_plan[k].action = "no_merge"
          /\ \A a \in Range(m) : new_registry.id_map[a] = a


\* how many times x stands in the list
Occurrences(list, x) == Cardinality({i \in 1..Len(list) : list[i] = x})

NoRepeats(list) == \A i, j \in 1..Len(list) : i # j => list[i] # list[j]

====
